---- MODULE Spec2Model ----
(***************************************************************************)
(* Commands of the opticloud CLI that talk to the remote deployment API.   *)
(*                                                                         *)
(* One process runs one command:                                           *)
(*   watch     deployment:watch            (src/commands/deployment/watch) *)
(*   start     deployment:start [--watch]  (src/commands/deployment/start) *)
(*   complete  deployment:complete --watch (.../deployment/complete)       *)
(*   list      deployment:list --watch     (unnamed/part_005)              *)
(*   reset     deployment:reset            (unnamed/part_004)              *)
(*   deploy    deployment:deploy ("ship")  (unnamed/part_006)              *)
(*   package:create                        (src/commands/package/create)   *)
(*   login     auth:login                  (src/commands/auth/login)       *)
(* and five calls of the library are exercised on their own:               *)
(*   validate             ApiClient.validateCredentials                    *)
(*   startDeployment      DeploymentService.startDeployment                *)
(*   generatePackageInfo  the ship command's package naming                *)
(*   uploadPackage        PackageService.uploadPackage                     *)
(*   createSignature      HmacSigner.createSignature                       *)
(*                                                                         *)
(* The local disk is a function from paths to files; a file name is the    *)
(* sequence of its dot-separated segments.                                 *)
(*                                                                         *)
(* The remote API is a black box: every fetch nondeterministically returns *)
(* a deployment snapshot or fails.  Optional fields of a snapshot are      *)
(* encoded as <<>> (absent) or <<v>> (present with value v).               *)
(***************************************************************************)
EXTENDS Integers, Sequences, FiniteSets, TLC

\* ------------------------------------------------------------------ bounds
\* Largest length of deploymentErrors the remote returns.
MaxErrorCount == 2
\* Largest length of deploymentWarnings the remote returns.
MaxWarningCount == 1
\* How many times the remote may reject the complete call of one ship run.
MaxCompleteFailures == 1
\* Instants of the clock: 0..MaxInstant, six hours apart.
MaxInstant == 7

\* ------------------------------------------------------- program constants
\* const maxErrors = 3 (the retry ceiling of every polling loop)
maxErrors == 3

\* ----------------------------------------------------------- remote values
\* Status strings the remote may return: the documented ones, one other
\* (opaque) string, and differently cased spellings of the terminal ones.
Statuses ==
  { "InProgress", "Resetting",
    "Succeeded", "SUCCEEDED",
    "Failed", "failed",
    "AwaitingVerification", "awaitingverification" }

\* percentComplete?: number
PercentValues == { <<>>, <<10>>, <<20>> }

\* deploymentErrors?.length / deploymentWarnings?.length
ErrorLists == { <<>> } \cup { <<n>> : n \in 1..MaxErrorCount }
WarningLists == { <<>> } \cup { <<n>> : n \in 1..MaxWarningCount }

Deployments ==
  [ status : Statuses,
    percentComplete : PercentValues,
    deploymentErrors : ErrorLists,
    deploymentWarnings : WarningLists ]

NoDeployment ==
  [ status |-> "", percentComplete |-> <<>>,
    deploymentErrors |-> <<>>, deploymentWarnings |-> <<>> ]

\* HTTP statuses of a failed fetch; 0 is a transport failure (no response).
FailureStatuses == { 0, 404 }

\* String.prototype.toLowerCase on the status strings of the model.
toLowerCase(s) ==
  CASE s = "InProgress" -> "inprogress"
    [] s = "Resetting" -> "resetting"
    [] s = "Succeeded" -> "succeeded"
    [] s = "SUCCEEDED" -> "succeeded"
    [] s = "Failed" -> "failed"
    [] s = "failed" -> "failed"
    [] s = "AwaitingVerification" -> "awaitingverification"
    [] s = "awaitingverification" -> "awaitingverification"
    [] OTHER -> s

\* `x || 0` on an optional number
OrZero(m) == IF m = <<>> THEN 0 ELSE m[1]

\* `list?.length || 0` on an optional list, given by its length
LengthOrZero(m) == IF m = <<>> THEN 0 ELSE m[1]

Max(a, b) == IF a >= b THEN a ELSE b

\* --------------------------------------------------- the deployment service
\* DeploymentService.listDeployments with options.id: the GET either returns
\* the deployment, wrapped in a one-element array, or throws ApiError.
\* The array is never empty.
ListDeploymentsById ==
  { [kind |-> "ok", httpStatus |-> 200, deployments |-> <<d>>] : d \in Deployments }
    \cup
  { [kind |-> "error", httpStatus |-> c, deployments |-> <<>>] : c \in FailureStatuses }

NoResponse == [kind |-> "none", httpStatus |-> 0, deployments |-> <<>>]

\* ------------------------------------------------------------ the API client
\* AuthCredentials values: the credentials persisted in the store, and the
\* ones --client-key/--client-secret supply (with a well-formed or a
\* malformed secret).  projectId is optional.
StoredCredentials ==
  [clientKey |-> "stored-key", clientSecret |-> "c3RvcmVk", projectId |-> <<"p1">>]
OverrideCredentials ==
  [clientKey |-> "override-key", clientSecret |-> "b3ZlcnJpZGU=", projectId |-> <<"p1">>]
\* Stored credentials whose client secret is the empty string.
BlankCredentials ==
  [clientKey |-> "stored-key", clientSecret |-> "", projectId |-> <<>>]
CredentialValues ==
  [ clientKey : {"stored-key", "override-key"},
    clientSecret : {"c3RvcmVk", "b3ZlcnJpZGU=", "not base64", "abc", "ab!@"},
    projectId : { <<>>, <<"p1">> } ]

\* String.prototype.includes(' ') on the secrets of the model.
includesSpace(str) ==
  CASE str = "not base64" -> TRUE
    [] OTHER -> FALSE

\* HmacSigner.isValidBase64: false when the length is not a multiple of 4 or
\* the string holds a space; otherwise Buffer.from(str, 'base64') is tried,
\* which skips the characters it cannot decode and never throws.
isValidBase64(str) ==
  IF Len(str) % 4 # 0 \/ includesSpace(str)
    THEN FALSE
    ELSE TRUE

\* config.apiEndpoint: the default of loadConfig and the --api-endpoint value.
DefaultEndpoint == "https://paasportal.episerver.net/api/v1.0/"
OverrideEndpoint == "https://override.example/api/"

\* What the remote does with one HTTP request: a response with a status and
\* a body {success, errors?}, or no response at all (transport failure).
\* An optional list is <<>> (absent) or <<list>>.
ErrorStatuses == { 401, 403, 404, 500 }
Responses ==
  { [received |-> TRUE, status |-> 200, success |-> TRUE, errors |-> <<>>] }
    \cup
  [ received : {TRUE}, status : {200}, success : {FALSE},
    errors : { <<>>, << <<"boom">> >> } ]
    \cup
  [ received : {TRUE}, status : ErrorStatuses, success : {FALSE},
    errors : { <<>>, << <<"boom">> >> } ]
    \cup
  { [received |-> FALSE, status |-> 0, success |-> FALSE, errors |-> <<>>] }

NoResult == [kind |-> "none", status |-> 0, errors |-> <<>>]
NoApiResponse == [received |-> FALSE, status |-> -1, success |-> FALSE, errors |-> <<>>]

\* ApiClient.request once this.credentials is set: what the call returns or
\* throws for the remote's response.
\*   - createAuthHeaders throws a plain Error for a secret that is not base64;
\*   - a non-2xx response is turned into ApiError(status, message,
\*     data?.errors || []) by the response interceptor and re-thrown;
\*   - a 2xx response with success=false throws ApiError(response.status,
\*     message, response.data.errors);
\*   - no response: the axios error has no response, so the catch block throws
\*     ApiError(0, "HTTP 0: Unknown").
request(creds, response) ==
  IF ~isValidBase64(creds.clientSecret)
    THEN [kind |-> "Error", status |-> 0, errors |-> <<>>]
    ELSE IF ~response.received
      THEN [kind |-> "ApiError", status |-> 0, errors |-> <<>>]
      ELSE IF response.status # 200
        THEN [ kind |-> "ApiError", status |-> response.status,
               errors |-> IF response.errors = <<>> THEN << <<>> >> ELSE response.errors ]
        ELSE IF ~response.success
          THEN [kind |-> "ApiError", status |-> response.status, errors |-> response.errors]
          ELSE [kind |-> "result", status |-> response.status, errors |-> <<>>]

\* Mutant of IsAuthFailure: every 4xx status counts as invalid credentials.
IsClientError(status) == status >= 400 /\ status < 500

\* `error.status === 401 || error.status === 403`
IsAuthFailure(status) == status = 401 \/ status = 403

\* Mutant of validateCredentials: the original credentials are put back
\* only when the call returns, not when it throws.
validateCredentialsNoFinally(current, creds, response) ==
  LET result == request(creds, response)
      outcome ==
        IF result.kind = "result" THEN "valid"
        ELSE IF result.kind = "ApiError" /\ IsAuthFailure(result.status) THEN "invalid"
        ELSE "threw"
  IN [ outcome |-> outcome, result |-> result,
       credentials |-> IF outcome = "threw" THEN <<creds>> ELSE current ]

\* ApiClient.validateCredentials(creds) on a client whose credentials are
\* `current`: the outcome (valid=true, valid=false or a thrown error), the
\* result of the read it issued, and this.credentials after the finally block.
validateCredentials(current, creds, response) ==
  LET originalCredentials == current
      result == request(creds, response)
      outcome ==
        IF result.kind = "result" THEN "valid"
        ELSE IF result.kind = "ApiError"
          THEN IF IsAuthFailure(result.status) THEN "invalid" ELSE "threw"
          ELSE "threw"
  IN [outcome |-> outcome, result |-> result, credentials |-> originalCredentials]

\* --------------------------------------------------- inputs of the commands
\* isValidGuid on the ids of the model.
ValidGuid == "7f9c2ba4-e88f-4d6c-8b0a-4f2d2b1c9e11"
InvalidGuid == "not-a-guid"
isValidGuid(str) ==
  CASE str = ValidGuid -> TRUE
    [] str = InvalidGuid -> FALSE
    [] OTHER -> FALSE

\* String.prototype.trim on the --target values of the model.
trim(str) ==
  CASE str = " " -> ""
    [] OTHER -> str

\* JavaScript truthiness of an optional string, and `list?.length` of an
\* optional list (<<>> is undefined).
TruthyString(m) == m # <<>> /\ m[1] # ""
HasLength(m) == m # <<>> /\ Len(m[1]) > 0

\* DeploymentStartOptions as the commands build them; every field but
\* targetEnvironment is optional.
StartOptions ==
  [ targetEnvironment : {"", " ", "integration"},
    sourceEnvironment : { <<>>, <<"">>, <<"preproduction">> },
    sourceApp : { <<>>, << <<>> >>, << <<"cms">> >> },
    deploymentPackages : { <<>>, << <<>> >>, << <<"app.zip">> >> },
    useMaintenancePage : { <<>>, <<FALSE>>, <<TRUE>> } ]

NoOptions == <<>>
NoPayload == <<>>

\* Mutant of StartPayload: every option is copied into the payload, set or not.
StartPayloadCopyingAll(o) ==
  [ targetEnvironment |-> <<o.targetEnvironment>>,
    sourceEnvironment |-> <<o.sourceEnvironment>>,
    sourceApp |-> <<o.sourceApp>>,
    Packages |-> <<o.deploymentPackages>>,
    useMaintenancePage |-> <<o.useMaintenancePage>> ]

\* The payload DeploymentService.startDeployment posts for options o.  A key
\* of the payload is <<>> when the key is not set and <<value>> when it is;
\* the value of an optional field keeps the encoding of the option.
StartPayload(o) ==
  [ targetEnvironment |-> <<o.targetEnvironment>>,
    sourceEnvironment |->
      IF TruthyString(o.sourceEnvironment) THEN <<o.sourceEnvironment>> ELSE <<>>,
    sourceApp |-> IF HasLength(o.sourceApp) THEN <<o.sourceApp>> ELSE <<>>,
    Packages |->
      IF HasLength(o.deploymentPackages) THEN <<o.deploymentPackages>> ELSE <<>>,
    useMaintenancePage |->
      IF o.useMaintenancePage # <<>> THEN <<o.useMaintenancePage>> ELSE <<>> ]

\* DeploymentService.getProjectId: the provided id, else the project id of
\* the stored credentials, else the configured default; <<>> when it throws.
getProjectId(providedId, stored, defaultProjectId) ==
  IF TruthyString(providedId) THEN providedId
  ELSE IF stored # <<>> /\ TruthyString(stored[1].projectId) THEN stored[1].projectId
  ELSE IF TruthyString(defaultProjectId) THEN defaultProjectId
  ELSE <<>>

\* ------------------------------------------------------------------ packages
\* A file name is modelled as the sequence of its dot-separated segments:
\* "mysite.cms.app.1.0.0.nupkg" is <<"mysite","cms","app","1","0","0","nupkg">>,
\* and joining two names with a dot is concatenating their sequences.  The
\* empty string is the single empty segment.
EmptyString == <<"">>
Falsy(m) == m = <<>> \/ m[1] = EmptyString

PackageTypes == { "cms", "head", "commerce", "sqldb" }
DbTypes == { "cms", "commerce" }
\* Values of --version and --prefix: omitted, empty, or given.
VersionFlags ==
  { <<>>, <<EmptyString>>, << <<"1", "0", "0">> >>, << <<"zip">> >>, << <<"1\n2">> >> }
PrefixFlags == { <<>>, <<EmptyString>>, << <<"mysite">> >>, << <<"cms", "app">> >> }

\* The clock: instant t is 2025-01-01T00:00:00Z plus 6 t hours.  A time
\* zone is its offset from UTC in hours.
Instants == 0..MaxInstant
Zones == { -6, 0, 6 }
utcDay(t) == 1 + (t \div 4)
utcHour(t) == 6 * (t % 4)
localHour(t, zone) == (utcHour(t) + zone + 24) % 24

\* Decimal digits of n, zero-padded to two places.
pad2(n) == << n \div 10, n % 10 >>

\* `now.toISOString().slice(0, 10).replace(/-/g, '')`: the digits of the
\* UTC date.
isoDate(t) == << 2, 0, 2, 5 >> \o pad2(1) \o pad2(utcDay(t))

\* `now.toTimeString().slice(0, 8).replace(/:/g, '')`: the digits of the
\* local time of day.
localTime(t, zone) == pad2(localHour(t, zone)) \o pad2(0) \o pad2(0)

\* The digits of the default version of package:create and of the ship
\* workflow.
createDefaultVersion(t, zone) == isoDate(t) \o localTime(t, zone)
shipDefaultVersion(t) == isoDate(t)

\* The string a sequence of digits spells.
digit(d) ==
  CASE d = 0 -> "0" [] d = 1 -> "1" [] d = 2 -> "2" [] d = 3 -> "3"
    [] d = 4 -> "4" [] d = 5 -> "5" [] d = 6 -> "6" [] d = 7 -> "7"
    [] d = 8 -> "8" [] d = 9 -> "9"
RECURSIVE spell(_)
spell(ds) == IF ds = <<>> THEN "" ELSE digit(Head(ds)) \o spell(Tail(ds))

\* PackageCreate.generatePackageInfo at instant now in time zone zone.  The
\* version defaults to the UTC date followed by the local time of day.
generatePackageInfo(type, version, prefix, dbType, now, zone) ==
  LET packageVersion ==
        IF Falsy(version) THEN << spell(createDefaultVersion(now, zone)) >>
                          ELSE version[1]
      withPrefix == ~Falsy(prefix)
  IN
  CASE type = "cms" ->
         [ name |-> IF withPrefix
                      THEN prefix[1] \o <<"cms", "app">> \o packageVersion \o <<"nupkg">>
                      ELSE <<"cms", "app">> \o packageVersion \o <<"nupkg">>,
           extension |-> ".nupkg", type |-> "CMS Application" ]
    [] type = "commerce" ->
         [ name |-> IF withPrefix
                      THEN prefix[1] \o <<"commerce", "app">> \o packageVersion \o <<"nupkg">>
                      ELSE <<"commerce", "app">> \o packageVersion \o <<"nupkg">>,
           extension |-> ".nupkg", type |-> "Commerce Application" ]
    [] type = "head" ->
         [ name |-> IF withPrefix
                      THEN prefix[1] \o <<"head", "app">> \o packageVersion \o <<"zip">>
                      ELSE <<"head", "app">> \o packageVersion \o <<"zip">>,
           extension |-> ".zip", type |-> "Head Application" ]
    [] type = "sqldb" ->
         [ name |-> IF withPrefix
                      THEN prefix[1] \o <<dbType, "sqldb">> \o packageVersion \o <<"bacpac">>
                      ELSE <<dbType, "sqldb">> \o packageVersion \o <<"bacpac">>,
           extension |-> ".bacpac",
           type |-> IF dbType = "cms" THEN "CMS Database" ELSE "COMMERCE Database" ]

\* Mutant of deployGeneratePackageInfo: head packages get the extension of
\* the application packages.
deployGeneratePackageInfoNupkg(type, version, prefix, dbType, now) ==
  LET packageVersion ==
        IF Falsy(version) THEN << spell(shipDefaultVersion(now)) >> ELSE version[1]
      stem ==
        CASE type = "cms" -> <<"cms", "app">> \o packageVersion \o <<"nupkg">>
          [] type = "commerce" -> <<"commerce", "app">> \o packageVersion \o <<"nupkg">>
          [] type = "head" -> <<"head", "app">> \o packageVersion \o <<"nupkg">>
          [] type = "sqldb" -> <<dbType, "sqldb">> \o packageVersion \o <<"bacpac">>
  IN [ name |-> IF Falsy(prefix) THEN stem ELSE prefix[1] \o stem ]

\* DeploymentDeploy.generatePackageInfo at instant now.  The version
\* defaults to the UTC date.
deployGeneratePackageInfo(type, version, prefix, dbType, now) ==
  LET packageVersion ==
        IF Falsy(version) THEN << spell(shipDefaultVersion(now)) >> ELSE version[1]
      withPrefix == ~Falsy(prefix)
  IN
  CASE type = "cms" ->
         [ name |-> IF withPrefix
                      THEN prefix[1] \o <<"cms", "app">> \o packageVersion \o <<"nupkg">>
                      ELSE <<"cms", "app">> \o packageVersion \o <<"nupkg">> ]
    [] type = "commerce" ->
         [ name |-> IF withPrefix
                      THEN prefix[1] \o <<"commerce", "app">> \o packageVersion \o <<"nupkg">>
                      ELSE <<"commerce", "app">> \o packageVersion \o <<"nupkg">> ]
    [] type = "head" ->
         [ name |-> IF withPrefix
                      THEN prefix[1] \o <<"head", "app">> \o packageVersion \o <<"zip">>
                      ELSE <<"head", "app">> \o packageVersion \o <<"zip">> ]
    [] type = "sqldb" ->
         [ name |-> IF withPrefix
                      THEN prefix[1] \o <<dbType, "sqldb">> \o packageVersion \o <<"bacpac">>
                      ELSE <<dbType, "sqldb">> \o packageVersion \o <<"bacpac">> ]

\* ------------------------------------------------------------- the local disk
\* Directories of the model, as absolute paths: the working directory, the
\* system's temporary directory (os.tmpdir()) and the output directories.
\* resolve() of the values of --output:
resolve(dir) ==
  CASE dir = "." -> "/work"
    [] dir = "./packages" -> "/work/packages"
    [] dir = "/tmp/out" -> "/tmp/out"
tmpdir == "/tmp"

\* A file path is its directory and its file name.
join(dir, name) == [dir |-> dir, name |-> name]
basename(path) == path.name

\* `path.includes(tmpdir())`: the path holds "/tmp" somewhere.  No file name
\* of the model holds a slash, so only the directory decides.
includesTmpdir(path) == path.dir \in { "/tmp", "/tmp/out" }

\* A file's content: its size in bytes and, for an archive, its entries.
OldPackage == [size |-> 1, entries |-> { <<"old">> }]
EmptyFile == [size |-> 0, entries |-> {}]
NoFiles == << >>
existsSync(files, path) == path \in DOMAIN files
writeFile(files, path, content) ==
  [p \in DOMAIN files \cup {path} |-> IF p = path THEN content ELSE files[p]]
unlinkSync(files, path) == [p \in DOMAIN files \ {path} |-> files[p]]

\* ------------------------------------------------------------ ignore patterns
\* An ignore pattern: the glob its text holds, whether it ends in a slash
\* (matches directories only) and whether it starts with "!" (re-includes).
Pattern(glob, dirOnly, negative) ==
  [glob |-> glob, dirOnly |-> dirOnly, negative |-> negative]

\* The patterns loadIgnorePatterns always adds.
AlwaysIgnored ==
  << Pattern(".DS_Store", FALSE, FALSE), Pattern("Thumbs.db", FALSE, FALSE),
     Pattern("*.tmp", FALSE, FALSE), Pattern("*.temp", FALSE, FALSE),
     Pattern("*.log", FALSE, FALSE),
     Pattern(".git", TRUE, FALSE), Pattern(".svn", TRUE, FALSE),
     Pattern(".hg", TRUE, FALSE), Pattern(".bzr", TRUE, FALSE),
     Pattern("node_modules", TRUE, FALSE), Pattern(".npm", TRUE, FALSE),
     Pattern(".yarn", TRUE, FALSE), Pattern(".pnp.*", FALSE, FALSE),
     Pattern("coverage", TRUE, FALSE), Pattern(".nyc_output", TRUE, FALSE),
     Pattern("dist", TRUE, FALSE), Pattern("build", TRUE, FALSE),
     Pattern("*.tsbuildinfo", FALSE, FALSE),
     Pattern(".env", FALSE, FALSE), Pattern(".env.*", FALSE, FALSE),
     Pattern(".env.example", FALSE, TRUE) >>

\* Whether a glob matches an entry name, for the names of the model.
globMatches(glob, name) ==
  \/ glob = name
  \/ << glob, name >> \in
       { << "*.log", "debug.log" >>, << ".env.*", ".env.example" >>,
         << ".env.*", ".env.local" >> }

\* The `ignore` package on one path whose parents are not ignored: the last
\* pattern that matches the path's last segment decides.  A pattern without
\* a slash matches at any depth; a directory pattern matches only a path
\* known to be a directory.
lastMatch(patterns, path, isDirectory) ==
  LET name == path[Len(path)]
      hits == { i \in 1..Len(patterns) :
                  /\ globMatches(patterns[i].glob, name)
                  /\ patterns[i].dirOnly => isDirectory }
  IN IF hits = {} THEN 0 ELSE CHOOSE i \in hits : \A j \in hits : j <= i

\* ig.ignores(path) for a relative path given without a trailing slash: a
\* path is ignored when one of its parent directories is, or else when the
\* last pattern matching it is not a negation.  The parents are tested as
\* directories, the path itself as a file.
ignores(patterns, path) ==
  \E k \in 1..Len(path) :
     LET i == lastMatch(patterns, SubSeq(path, 1, k), k < Len(path))
     IN i # 0 /\ ~patterns[i].negative

\* A source directory: its regular files, as paths relative to it, and the
\* patterns its ignore files hold (<<>> when the file is absent).
SourceFiles ==
  { <<"index.js">>, <<".env">>, <<".env.local">>, <<".env.example">>,
    <<".git", "config">>, <<"node_modules", "x.js">>, <<"debug.log">>,
    <<"secret.txt">>, <<"notes.md">> }
SourceTrees ==
  { [ files |-> SourceFiles, gitignore |-> <<>>, zipignore |-> <<>> ],
    [ files |-> SourceFiles \cup { <<".gitignore">> },
      gitignore |-> << << Pattern("secret.txt", FALSE, FALSE) >> >>,
      zipignore |-> <<>> ],
    [ files |-> SourceFiles \cup { <<".zipignore">> },
      gitignore |-> <<>>,
      zipignore |-> << << Pattern("notes.md", FALSE, FALSE) >> >> ] }

\* PackageCreator.loadIgnorePatterns: the always-on patterns, then the
\* content of .gitignore when the directory has one.
loadIgnorePatterns(tree) ==
  IF tree.gitignore # <<>> THEN AlwaysIgnored \o tree.gitignore[1]
                           ELSE AlwaysIgnored

\* PackageCreator.addDirectoryToArchive from the root of the tree: the walk
\* skips every entry ig.ignores() reports, directories with all they hold,
\* and appends the regular files it reaches.
addDirectoryToArchive(tree, ignorePatterns) ==
  { f \in tree.files :
      \A k \in 1..Len(f) : ~ignores(ignorePatterns, SubSeq(f, 1, k)) }

\* PackageCreator.createPackage: the archive written to packagePath.
\* package:create passes `useZipignore`, an option createPackage does not
\* have, so useGitignore keeps its default (true).
createPackageArchive(tree) ==
  [ size |-> 1, entries |-> addDirectoryToArchive(tree, loadIgnorePatterns(tree)) ]

\* DeploymentDeploy.createPackageFile: `archive.directory(sourceDir, false)`
\* adds every file of the directory.
createPackageFile(tree) == [ size |-> 1, entries |-> tree.files ]

\* ------------------------------------------------------- the package service
\* `packagePattern.test(fileName)` of validatePackageFile, on the name's
\* segments: an optional non-empty prefix, then either
\* (cms|commerce|head).app.<version>.(nupkg|zip) or
\* (cms|commerce).sqldb.<version>.bacpac, whatever the letter case (/i).
\* <version>, matched by (.+), is at least one character.
\* The letter-case folding of the /i flag, on the segments of the model.
foldCase(segment) ==
  CASE segment = "CMS" -> "cms"
    [] segment = "APP" -> "app"
    [] segment = "NUPKG" -> "nupkg"
    [] OTHER -> segment

nonEmptyText(segments) == segments # <<>> /\ segments # EmptyString

\* Whether a segment of the model holds a line terminator.
hasLineTerminator(segment) == segment = "1\n2"

\* Whether `.+` matches the whole of the text: the text is not empty and
\* holds no line terminator, which `.` does not match.
matchesDotPlus(segments) ==
  /\ nonEmptyText(segments)
  /\ \A k \in 1..Len(segments) : ~hasLineTerminator(segments[k])
packagePatternTest(fileName) ==
  \E i \in 1..Len(fileName) :
     LET n == Len(fileName)
         kind == foldCase(fileName[i])
         ext == foldCase(fileName[n])
     IN
     /\ i = 1 \/ matchesDotPlus(SubSeq(fileName, 1, i - 1))
     /\ i + 3 <= n
     /\ matchesDotPlus(SubSeq(fileName, i + 2, n - 1))
     /\ \/ /\ kind \in { "cms", "commerce", "head" }
           /\ foldCase(fileName[i + 1]) = "app"
           /\ ext \in { "nupkg", "zip" }
        \/ /\ kind \in { "cms", "commerce" }
           /\ foldCase(fileName[i + 1]) = "sqldb"
           /\ ext = "bacpac"

\* Files of earlier runs: packages left where package:create and the ship
\* workflow write theirs, and files a later upload may be pointed at.
EarlierFiles ==
  LET head == <<"head", "app", "1", "0", "0", "zip">>
      cms == <<"cms", "app", "1", "0", "0", "nupkg">>
  IN [ p \in { join("/tmp", head), join("/work/packages", head), join("/work", cms),
               join("/work", <<"cms", "app", "2", "nupkg">>),
               join("/work", <<"CMS", "APP", "1", "NUPKG">>),
               join("/work", <<"app", "zip">>) }
       |-> IF p.name = <<"cms", "app", "2", "nupkg">> THEN EmptyFile ELSE OldPackage ]

\* The commands that read or write the disk.
PackageCommands == { "package:create", "uploadPackage", "deploy" }

\* PackageService.validatePackageFile: whether it returns (TRUE) or throws.
\* Mutant: the size of the file is not looked at.
validatePackageFileAnySize(files, filePath) ==
  /\ existsSync(files, filePath)
  /\ packagePatternTest(basename(filePath))

validatePackageFile(files, filePath) ==
  /\ existsSync(files, filePath)
  /\ files[filePath].size # 0
  /\ packagePatternTest(basename(filePath))

\* PackageService.getProjectId: the provided id, else the project id of the
\* stored credentials, else the configured default; <<>> when it throws.
packageGetProjectId(providedId, stored, default) ==
  IF TruthyString(providedId) THEN providedId
  ELSE IF stored # <<>> /\ TruthyString(stored[1].projectId) THEN stored[1].projectId
  ELSE IF TruthyString(default) THEN default
  ELSE <<>>

\* The text of a file name: its segments joined with dots.
RECURSIVE fileNameText(_)
fileNameText(name) ==
  IF Len(name) = 1 THEN name[1]
                   ELSE name[1] \o "." \o fileNameText(Tail(name))

\* PackageService.uploadPackage with the client holding creds (<<>> when the
\* store is empty too): getProjectId, validatePackageFile, then getSasUrl
\* (GET projects/<id>/packages/location through the API client), then
\* uploadToStorage (a PUT of the file to the SAS URL, which must answer 201).
\*   calls     the requests asked of the API client,
\*   puts      the storage uploads attempted,
\*   response  what the remote did with the location request,
\*   result    what the API client returned or threw for it,
\*   ok        uploadPackage returned.
uploadPackage(files, filePath, projectId, stored, default, creds, sasResponse, storageStatus) ==
  LET located ==
        IF creds = <<>> THEN [kind |-> "Error", status |-> 0, errors |-> <<>>]
                        ELSE request(creds[1], sasResponse)
      sent == creds # <<>> /\ isValidBase64(creds[1].clientSecret)
  IN
  IF \/ packageGetProjectId(projectId, stored, default) = <<>>
     \/ ~validatePackageFile(files, filePath)
    THEN [ calls |-> <<>>, puts |-> <<>>, response |-> NoApiResponse,
           result |-> NoResult, ok |-> FALSE ]
    ELSE IF located.kind # "result"
      THEN [ calls |-> <<"location">>, puts |-> <<>>,
             response |-> IF sent THEN sasResponse ELSE NoApiResponse,
             result |-> located, ok |-> FALSE ]
      ELSE [ calls |-> <<"location">>,
             puts |-> << [ blobName |-> basename(filePath), status |-> storageStatus ] >>,
             response |-> sasResponse, result |-> located,
             ok |-> storageStatus = 201 ]

\* ------------------------------------------------- the HMAC signer (hmac.ts)
\* String.prototype.toUpperCase on the HTTP methods of the model.
toUpperCase(method) ==
  CASE method \in { "get", "Get", "GET" } -> "GET"
    [] method \in { "post", "POST" } -> "POST"
    [] OTHER -> method

\* Number.prototype.toString of a natural number.
RECURSIVE numberToString(_)
numberToString(n) ==
  IF n < 10 THEN digit(n) ELSE numberToString(n \div 10) \o digit(n % 10)

\* crypto.randomUUID(): the groups the dashes separate.
UUIDs == { <<"1a", "2b">>, <<"3c", "4d">> }

\* uuid.replaceAll('-', ''): the groups without the dashes between them.
RECURSIVE withoutDashes(_)
withoutDashes(groups) ==
  IF groups = <<>> THEN "" ELSE Head(groups) \o withoutDashes(Tail(groups))

\* crypto.createHash('md5').update(body, 'utf8').digest('base64'): a digest
\* that tells the bodies of the model apart.
md5Base64(body) == "md5<" \o body \o ">"

\* Buffer.from(clientSecret, 'base64') on the secrets of the model; a
\* character that is not of the base64 alphabet is skipped.
decodeBase64(str) ==
  CASE str = "c3RvcmVk" -> "stored"
    [] str = "b3ZlcnJpZGU=" -> "override"
    [] str = "ab!@" -> "i"
    [] OTHER -> ""

\* crypto.createHmac('sha256', key).update(message, 'utf8').digest('base64')
hmacSha256Base64(key, message) == "hmac<" \o key \o "," \o message \o ">"

NoSignature == [ timestamp |-> "", nonce |-> "", signature |-> "", authorization |-> "" ]

\* createSignature signing the method as it was passed.
createSignatureAsPassed(clientKey, clientSecret, method, path, body, now, uuid) ==
  IF ~isValidBase64(clientSecret)
    THEN [ threw |-> TRUE, value |-> NoSignature ]
    ELSE
      LET timestamp == numberToString(now)
          nonce == withoutDashes(uuid)
          bodyHash == md5Base64(IF body = <<>> THEN "" ELSE body[1])
          message == clientKey \o method \o path \o timestamp \o nonce \o bodyHash
          signature == hmacSha256Base64(decodeBase64(clientSecret), message)
      IN [ threw |-> FALSE,
           value |-> [ timestamp |-> timestamp, nonce |-> nonce, signature |-> signature,
                       authorization |->
                         "epi-hmac " \o clientKey \o ":" \o timestamp \o ":" \o nonce
                           \o ":" \o signature ] ]

\* HmacSigner.createSignature when Date.now() returns now and
\* crypto.randomUUID() returns uuid.  body is <<>> when the argument is
\* left out (its default is '').
createSignature(clientKey, clientSecret, method, path, body, now, uuid) ==
  IF ~isValidBase64(clientSecret)
    THEN [ threw |-> TRUE, value |-> NoSignature ]
    ELSE
      LET timestamp == numberToString(now)
          nonce == withoutDashes(uuid)
          bodyHash == md5Base64(IF body = <<>> THEN "" ELSE body[1])
          message ==
            clientKey \o toUpperCase(method) \o path \o timestamp \o nonce \o bodyHash
          signature == hmacSha256Base64(decodeBase64(clientSecret), message)
      IN [ threw |-> FALSE,
           value |-> [ timestamp |-> timestamp, nonce |-> nonce, signature |-> signature,
                       authorization |->
                         "epi-hmac " \o clientKey \o ":" \o timestamp \o ":" \o nonce
                           \o ":" \o signature ] ]

\* The request bodies of the model as JavaScript values: none, null, and
\* two objects.
RequestBodies == { "undefined", "null", "{}", "{packages}" }

\* `body ? JSON.stringify(body) : ''` of createAuthHeaders.
bodyString(body) ==
  CASE body \in { "undefined", "null" } -> ""
    [] body = "{}" -> "{}"
    [] body = "{packages}" -> "{\"packages\":[\"a.zip\"]}"

\* ApiClient.createAuthHeaders with this.credentials = creds (<<>> is null).
createAuthHeaders(creds, method, path, body, now, uuid) ==
  IF creds = <<>>
    THEN [ threw |-> TRUE, Authorization |-> "" ]
    ELSE LET signed == createSignature(creds[1].clientKey, creds[1].clientSecret,
                                       method, path, << bodyString(body) >>, now, uuid)
         IN [ threw |-> signed.threw, Authorization |-> signed.value.authorization ]

\* ------------------------------------------------------------------- state
VARIABLES
  cmd,               \* the command this process runs
  continueOnErrors,  \* --continue-on-errors
  json,              \* --json
  pc,                \* "init", "loop" (about to fetch) or "done"
  lastStatus, lastProgress, lastErrorCount, lastWarningCount,
  consecutiveErrors, errorsShown,   \* locals of the polling loop
  exitCode,          \* <<>> while running, <<code>> once the process ended
  report,            \* the conclusion the command logged when its loop ended
  resp,              \* result of the latest fetch
  repeated,          \* the latest poll returned the same snapshot as the poll before it
  maxSeen,           \* largest progress a successful poll of the session returned, -1 if none
  polledStatus,      \* status the latest successful poll of the session returned (<<>> if none)
  maxWarnings,       \* largest warning count a successful poll of deployment:watch returned
  failStreak,        \* how many fetches in a row have failed
  slept,             \* the latest iteration of the loop reached the sleep that ends it
  emitted,           \* events logged by the latest poll
  errorsRendered,    \* how many polls rendered the error list so far
  noticesShown,      \* how many "continuing despite errors" notices so far
  showCompleted,     \* --show-completed (deployment:list)
  deploymentStates,  \* DeploymentList.deploymentStates
  displayed,         \* ids deployment:list produced output for in the latest poll
  lastDisplayed,     \* per id: the tuple of its latest output and whether it was hidden since
  completeCalls,     \* complete calls issued by the ship workflow
  completeFailures,  \* how many of them the remote rejected
  credentials,       \* ApiClient.credentials (<<>> is null)
  keytar,            \* the credentials persisted in the credential store
  apiEndpoint,       \* ConfigManager.config.apiEndpoint
  configFile,        \* apiEndpoint as persisted in config.json
  originalCredentials, originalApiEndpoint,   \* fields of DeploymentDeploy
  before,            \* client, store and config as they were when the command began
  args,              \* arguments a command keeps across a prompt or call
  options,           \* the options of the latest startDeployment call
  payload,           \* the payload that call posted
  apiCalls,          \* calls issued through the API client by start, reset, auth
  apiResponse,       \* what the remote did with the latest of them
  apiResult,         \* what ApiClient.request returned or threw for it
  validation,        \* outcome of the latest validateCredentials call
  disk,              \* the files on the local disk the commands write or read
  tempPackagePath,   \* field of DeploymentDeploy (<<>> is null)
  defaultProjectId,  \* ConfigManager.config.defaultProjectId (<<>> is undefined)
  storage            \* the uploads to the storage service attempted so far

vars ==
  << cmd, continueOnErrors, json, pc,
     lastStatus, lastProgress, lastErrorCount, lastWarningCount,
     consecutiveErrors, errorsShown, exitCode, report,
     resp, repeated, maxSeen, polledStatus, maxWarnings, failStreak, slept, emitted,
     errorsRendered, noticesShown,
     showCompleted, deploymentStates, displayed, lastDisplayed,
     completeCalls, completeFailures,
     credentials, keytar, apiEndpoint, configFile,
     originalCredentials, originalApiEndpoint, before,
     args, options, payload, apiCalls, apiResponse, apiResult, validation,
     disk, tempPackagePath, defaultProjectId, storage >>

\* What a command's flags fix for the whole run.
flags == << cmd, continueOnErrors, json, showCompleted >>
\* State of deployment:list and of the ship workflow only.
listState == << deploymentStates, displayed, lastDisplayed >>
shipState == << completeCalls, completeFailures >>
\* The API client with the store and the configuration behind it.
clientState == << credentials, keytar, apiEndpoint, configFile >>
\* What DeploymentDeploy.setupCredentials saves for cleanup.
shipRun == << originalCredentials, originalApiEndpoint >>
\* The latest call of a one-shot command and what came of it.
callState == << args, options, payload, apiCalls, apiResponse, apiResult, validation >>
\* The local files, the package the ship workflow made, the default project.
localState == << disk, tempPackagePath, defaultProjectId, storage >>
\* Everything the polling loops never touch.
runState == << clientState, shipRun, callState, before, localState >>

NoEvents ==
  [ status |-> <<>>, progress |-> <<>>, errors |-> <<>>,
    notice |-> FALSE, warnings |-> <<>> ]

\* --------------------------------------------------- conditions of the loops
\* Mutant of StatusChanged: the first status counts as a change from ''.
StatusChangedFromEmpty(currentStatus, last) == currentStatus # last

\* if (currentStatus !== lastStatus && lastStatus !== '') of watch.ts
StatusChanged(currentStatus, last) == currentStatus # last /\ last # ""

\* Mutant of ProgressIncreased: any change of the progress counts.
ProgressChanged(currentProgress, last) == currentProgress # last

\* Mutant of ProgressIncreased: a progress equal to the last one counts.
ProgressNotDecreased(currentProgress, last) == currentProgress >= last

\* `currentProgress !== lastProgress && currentProgress > lastProgress`
\* (the same expression in watch.ts, start.ts, complete.ts and the ship loop)
ProgressIncreased(currentProgress, last) ==
  currentProgress # last /\ currentProgress > last

\* Mutant of NewErrors: the errorsShown guard forgotten.
NewErrorsUnguarded(currentErrorCount, last, shown) == currentErrorCount > last

\* `currentErrorCount > lastErrorCount && !errorsShown`
\* (the same expression in watch.ts, start.ts and complete.ts)
NewErrors(currentErrorCount, last, shown) ==
  currentErrorCount > last /\ ~shown

\* Mutant of BreaksOnErrors: the break left out.
NeverBreaksOnErrors(newErrors, continue) == FALSE

\* `if (!continueOnErrors) { ... break }` inside the branch of new errors
BreaksOnErrors(newErrors, continue) == newErrors /\ ~continue

\* Mutant of Completion: the statuses compared without toLowerCase().
CompletionCaseSensitive(currentStatus) ==
  IF currentStatus = "Succeeded" THEN "succeeded"
  ELSE IF currentStatus = "Failed" THEN "failed"
  ELSE IF currentStatus = "AwaitingVerification" THEN "awaitingverification"
  ELSE ""

\* The if / else-if chain on currentStatus.toLowerCase() that ends the loop:
\* the branch taken, "" when none is.
Completion(currentStatus) ==
  IF toLowerCase(currentStatus) = "succeeded" THEN "succeeded"
  ELSE IF toLowerCase(currentStatus) = "failed" THEN "failed"
  ELSE IF toLowerCase(currentStatus) = "awaitingverification" THEN "awaitingverification"
  ELSE ""

\* Mutant of TooManyErrors: off by one.
TooManyErrorsStrict(n) == n > maxErrors

\* `consecutiveErrors >= maxErrors`
TooManyErrors(n) == n >= maxErrors

\* Mutant of CatchPollFailure: the session starts over after a failed fetch.
CatchPollFailureResetting ==
  /\ consecutiveErrors' = consecutiveErrors + 1
  /\ IF TooManyErrors(consecutiveErrors + 1)
       THEN pc' = "done" /\ report' = "tooManyErrors"
       ELSE pc' = "loop" /\ report' = report
  /\ emitted' = NoEvents
  /\ lastStatus' = "" /\ lastProgress' = -1
  /\ UNCHANGED << lastErrorCount, lastWarningCount,
                  errorsShown, errorsRendered, noticesShown >>

\* The catch block of watchDeployment: count the failure, stop at the ceiling.
\* Nothing else of the session changes.
CatchPollFailure ==
  /\ consecutiveErrors' = consecutiveErrors + 1
  /\ IF TooManyErrors(consecutiveErrors + 1)
       THEN pc' = "done" /\ report' = "tooManyErrors"
       ELSE pc' = "loop" /\ report' = report
  /\ emitted' = NoEvents
  /\ UNCHANGED << lastStatus, lastProgress, lastErrorCount, lastWarningCount,
                  errorsShown, errorsRendered, noticesShown >>

\* The progress a snapshot reports; a snapshot without percentComplete
\* reports 0.
Observed(d) == IF d.percentComplete = <<>> THEN 0 ELSE d.percentComplete[1]

\* Record of the fetch just made: its result, and whether it returned the
\* very snapshot the poll before it returned.
Fetched(r) ==
  /\ resp' = r
  /\ repeated' = (r.kind = "ok" /\ r = resp)
  /\ maxSeen' =
       IF r.kind = "ok" /\ Len(r.deployments) > 0
         THEN Max(maxSeen, Observed(r.deployments[1]))
         ELSE maxSeen
  /\ polledStatus' =
       IF r.kind = "ok" /\ Len(r.deployments) > 0
         THEN << r.deployments[1].status >>
         ELSE polledStatus
  /\ maxWarnings' =
       IF cmd = "watch" /\ r.kind = "ok" /\ Len(r.deployments) > 0
         THEN Max(maxWarnings, LengthOrZero(r.deployments[1].deploymentWarnings))
         ELSE maxWarnings
  /\ failStreak' = IF r.kind = "error" THEN failStreak + 1 ELSE 0

\* ------------------------------------------------ deployment:watch (watch.ts)
\* DeploymentWatch.run up to the call of watchDeployment: the initial fetch,
\* the "already in final state" return (exit code 0 whatever the state), and
\* the catch that exits with 1.
WatchRun ==
  /\ cmd = "watch" /\ pc = "init"
  /\ \E r \in ListDeploymentsById :
       IF r.kind = "error"
         THEN pc' = "done" /\ exitCode' = <<1>> /\ report' = "fetchFailed"
         ELSE IF Len(r.deployments) = 0
           THEN pc' = "done" /\ exitCode' = <<1>> /\ report' = "notFound"
           ELSE IF toLowerCase(r.deployments[1].status) = "succeeded"
             THEN pc' = "done" /\ exitCode' = <<0>> /\ report' = "alreadySucceeded"
           ELSE IF toLowerCase(r.deployments[1].status) = "failed"
             THEN pc' = "done" /\ exitCode' = <<0>> /\ report' = "alreadyFailed"
           ELSE IF toLowerCase(r.deployments[1].status) = "awaitingverification"
             THEN pc' = "done" /\ exitCode' = <<0>>
                  /\ report' = "alreadyAwaitingVerification"
             ELSE pc' = "loop" /\ exitCode' = <<>> /\ report' = report
  /\ UNCHANGED << flags, runState, listState, shipState,
                  lastStatus, lastProgress, lastErrorCount, lastWarningCount,
                  consecutiveErrors, errorsShown,
                  resp, repeated, maxSeen, polledStatus, maxWarnings, failStreak, slept,
                  emitted,
                  errorsRendered, noticesShown >>

\* The try block of DeploymentWatch.watchDeployment for a fetch that returned.
WatchTry(deployments) ==
  IF Len(deployments) = 0
    THEN \* logError('Deployment not found'); break
      /\ pc' = "done" /\ report' = "notFound"
      /\ emitted' = NoEvents
      /\ UNCHANGED << lastStatus, lastProgress, lastErrorCount, lastWarningCount,
                      consecutiveErrors, errorsShown, errorsRendered, noticesShown >>
    ELSE
      LET deployment == deployments[1]
          currentStatus == deployment.status
          currentProgress == OrZero(deployment.percentComplete)
          currentWarningCount == LengthOrZero(deployment.deploymentWarnings)
          currentErrorCount == LengthOrZero(deployment.deploymentErrors)
          statusChanged == StatusChanged(currentStatus, lastStatus)
          progressed == ProgressIncreased(currentProgress, lastProgress)
          newErrors == NewErrors(currentErrorCount, lastErrorCount, errorsShown)
          exitOnErrors == BreaksOnErrors(newErrors, continueOnErrors)
          newWarnings == currentWarningCount - lastWarningCount
          warned == ~exitOnErrors /\ currentWarningCount > lastWarningCount
          completion == Completion(currentStatus)
      IN
      /\ lastStatus' = currentStatus
      /\ lastProgress' = Max(lastProgress, currentProgress)
      /\ errorsShown' = (errorsShown \/ newErrors)
      /\ errorsRendered' = IF newErrors THEN errorsRendered + 1 ELSE errorsRendered
      /\ noticesShown' =
           IF newErrors /\ continueOnErrors THEN noticesShown + 1 ELSE noticesShown
      /\ emitted' =
           [ status |-> IF statusChanged THEN <<lastStatus, currentStatus>> ELSE <<>>,
             progress |-> IF progressed THEN <<currentProgress>> ELSE <<>>,
             errors |-> IF newErrors THEN <<currentErrorCount>> ELSE <<>>,
             notice |-> newErrors /\ continueOnErrors,
             warnings |-> IF warned THEN <<newWarnings>> ELSE <<>> ]
      /\ IF exitOnErrors
           THEN \* break before the counts are stored
             /\ pc' = "done" /\ report' = "errorsDetected"
             /\ UNCHANGED << lastWarningCount, lastErrorCount, consecutiveErrors >>
           ELSE
             /\ lastWarningCount' = currentWarningCount
             /\ lastErrorCount' = currentErrorCount
             /\ IF completion # ""
                  THEN /\ pc' = "done" /\ report' = completion
                       /\ UNCHANGED consecutiveErrors
                  ELSE /\ pc' = "loop" /\ report' = report
                       /\ consecutiveErrors' = 0

\* One iteration of the while (true) of DeploymentWatch.watchDeployment:
\* fetch, try or catch, then the sleep before the next fetch.  A break
\* leaves the loop without the sleep.  When the loop breaks,
\* watchDeployment and run return and the process ends with code 0.
WatchPollOn(fetches) ==
  /\ cmd = "watch" /\ pc = "loop"
  /\ \E r \in fetches :
       /\ Fetched(r)
       /\ IF r.kind = "ok" THEN WatchTry(r.deployments) ELSE CatchPollFailure
  /\ exitCode' = IF pc' = "done" THEN <<0>> ELSE <<>>
  /\ slept' = (pc' = "loop")
  /\ UNCHANGED << flags, runState, listState, shipState >>

WatchPoll == WatchPollOn(ListDeploymentsById)


\* ------------------------------------ deployment:start --watch (start.ts)
\* The try block of DeploymentStart.watchDeployment for a fetch that returned.
StartWatchTry(deployments) ==
  IF Len(deployments) = 0
    THEN \* logError('Deployment not found'); break
      /\ pc' = "done" /\ report' = "notFound"
      /\ emitted' = NoEvents
      /\ UNCHANGED << lastStatus, lastProgress, lastErrorCount, lastWarningCount,
                      consecutiveErrors, errorsShown, errorsRendered, noticesShown >>
    ELSE
      LET deployment == deployments[1]
          currentStatus == deployment.status
          currentProgress == OrZero(deployment.percentComplete)
          statusChanged == currentStatus # lastStatus
          progressed == ProgressIncreased(currentProgress, lastProgress)
          warningCount == LengthOrZero(deployment.deploymentWarnings)
          errorCount == LengthOrZero(deployment.deploymentErrors)
          newErrors == NewErrors(errorCount, lastErrorCount, errorsShown)
          exitOnErrors == BreaksOnErrors(newErrors, continueOnErrors)
          warned == ~exitOnErrors /\ warningCount > lastWarningCount
          completion == Completion(currentStatus)
      IN
      /\ lastStatus' = IF statusChanged THEN currentStatus ELSE lastStatus
      /\ lastProgress' = IF progressed THEN currentProgress ELSE lastProgress
      /\ errorsShown' = (errorsShown \/ newErrors)
      /\ errorsRendered' = IF newErrors THEN errorsRendered + 1 ELSE errorsRendered
      /\ noticesShown' =
           IF newErrors /\ continueOnErrors THEN noticesShown + 1 ELSE noticesShown
      /\ emitted' =
           [ status |-> IF statusChanged THEN <<lastStatus, currentStatus>> ELSE <<>>,
             progress |-> IF progressed THEN <<currentProgress>> ELSE <<>>,
             errors |-> IF newErrors THEN <<errorCount>> ELSE <<>>,
             notice |-> newErrors /\ continueOnErrors,
             warnings |-> IF warned THEN <<warningCount>> ELSE <<>> ]
      /\ IF exitOnErrors
           THEN \* break before the counts are stored
             /\ pc' = "done" /\ report' = "errorsDetected"
             /\ UNCHANGED << lastWarningCount, lastErrorCount, consecutiveErrors >>
           ELSE
             /\ lastErrorCount' = errorCount
             /\ lastWarningCount' = warningCount
             /\ IF completion # ""
                  THEN /\ pc' = "done" /\ report' = completion
                       /\ UNCHANGED consecutiveErrors
                  ELSE /\ pc' = "loop" /\ report' = report
                       /\ consecutiveErrors' = 0

\* One iteration of the while (true) of DeploymentStart.watchDeployment,
\* entered when --watch is given without --json.  When the loop breaks, run
\* returns and the process ends with code 0.
StartWatchPoll ==
  /\ cmd = "start" /\ pc = "loop"
  /\ \E r \in ListDeploymentsById :
       /\ Fetched(r)
       /\ IF r.kind = "ok" THEN StartWatchTry(r.deployments) ELSE CatchPollFailure
  /\ exitCode' = IF pc' = "done" THEN <<0>> ELSE <<>>
  /\ slept' = (pc' = "loop")
  /\ UNCHANGED << flags, runState, listState, shipState >>

\* ------------------------------------ deployment:complete --watch (complete.ts)
\* The try block of DeploymentComplete.watchDeployment for a fetch that returned.
CompleteWatchTry(deployments) ==
  IF Len(deployments) = 0
    THEN \* logError('Deployment not found'); break
      /\ pc' = "done" /\ report' = "notFound"
      /\ emitted' = NoEvents
      /\ UNCHANGED << lastStatus, lastProgress, lastErrorCount, lastWarningCount,
                      consecutiveErrors, errorsShown, errorsRendered, noticesShown >>
    ELSE
      LET deployment == deployments[1]
          currentStatus == deployment.status
          currentProgress == OrZero(deployment.percentComplete)
          statusChanged == currentStatus # lastStatus
          progressed == ProgressIncreased(currentProgress, lastProgress)
          warningCount == LengthOrZero(deployment.deploymentWarnings)
          errorCount == LengthOrZero(deployment.deploymentErrors)
          newErrors == NewErrors(errorCount, lastErrorCount, errorsShown)
          exitOnErrors == BreaksOnErrors(newErrors, continueOnErrors)
          warned == ~exitOnErrors /\ warningCount > lastWarningCount
          completion == Completion(currentStatus)
      IN
      /\ lastStatus' = IF statusChanged THEN currentStatus ELSE lastStatus
      /\ lastProgress' = IF progressed THEN currentProgress ELSE lastProgress
      /\ errorsShown' = (errorsShown \/ newErrors)
      /\ errorsRendered' = IF newErrors THEN errorsRendered + 1 ELSE errorsRendered
      /\ noticesShown' =
           IF newErrors /\ continueOnErrors THEN noticesShown + 1 ELSE noticesShown
      /\ emitted' =
           [ status |-> IF statusChanged THEN <<lastStatus, currentStatus>> ELSE <<>>,
             progress |-> IF progressed THEN <<currentProgress>> ELSE <<>>,
             errors |-> IF newErrors THEN <<errorCount>> ELSE <<>>,
             notice |-> newErrors /\ continueOnErrors,
             warnings |-> IF warned THEN <<warningCount>> ELSE <<>> ]
      /\ IF exitOnErrors
           THEN \* break before the counts are stored
             /\ pc' = "done" /\ report' = "errorsDetected"
             /\ UNCHANGED << lastWarningCount, lastErrorCount, consecutiveErrors >>
           ELSE
             /\ lastErrorCount' = errorCount
             /\ lastWarningCount' = warningCount
             /\ IF completion # ""
                  THEN /\ pc' = "done" /\ report' = completion
                       /\ UNCHANGED consecutiveErrors
                  ELSE /\ pc' = "loop" /\ report' = report
                       /\ consecutiveErrors' = 0

\* One iteration of the while (true) of DeploymentComplete.watchDeployment,
\* entered when --watch is given without --json.  When the loop breaks, run
\* returns and the process ends with code 0.
CompleteWatchPoll ==
  /\ cmd = "complete" /\ pc = "loop"
  /\ \E r \in ListDeploymentsById :
       /\ Fetched(r)
       /\ IF r.kind = "ok" THEN CompleteWatchTry(r.deployments) ELSE CatchPollFailure
  /\ exitCode' = IF pc' = "done" THEN <<0>> ELSE <<>>
  /\ slept' = (pc' = "loop")
  /\ UNCHANGED << flags, runState, listState, shipState >>

\* ------------------------------------- deployment:list --watch (part_005)
DeploymentIds == { "d1" }

\* The snapshots a listing returns.  deployment:list compares the counts
\* of errors and of warnings for equality only: two values of each tell
\* its cases apart.
ListedSnapshots ==
  { d \in Deployments :
      /\ LengthOrZero(d.deploymentErrors) <= 1
      /\ LengthOrZero(d.deploymentWarnings) <= 1 }

\* DeploymentService.listDeployments as deployment:list calls it: the
\* deployments of the project (or the one of --deployment-id), or a throw.
ListDeployments ==
  { [kind |-> "ok", httpStatus |-> 200, deployments |-> ds] :
      ds \in { <<>> } \cup
             { << [id |-> i, snapshot |-> d] >> : i \in DeploymentIds, d \in ListedSnapshots } }
    \cup
  { [kind |-> "error", httpStatus |-> c, deployments |-> <<>>] : c \in FailureStatuses }

\* `currentState` of processDeploymentUpdates for one deployment.
ListCurrentState(snapshot) ==
  [ status |-> snapshot.status,
    progress |-> OrZero(snapshot.percentComplete),
    errorCount |-> LengthOrZero(snapshot.deploymentErrors),
    warningCount |-> LengthOrZero(snapshot.deploymentWarnings) ]

\* The test of processDeploymentUpdates that skips a completed deployment.
ListSkipsCompleted(snapshot) ==
  /\ ~showCompleted
  /\ \/ toLowerCase(snapshot.status) = "succeeded"
     \/ toLowerCase(snapshot.status) = "failed"

\* What the operator has seen of each id once a poll displayed the ids
\* `shown` out of `deployments`: the tuple of the latest output for the id,
\* and whether a later poll skipped the id as completed.
ListSeen(deployments, shown, seen) ==
  [ i \in DeploymentIds |->
      IF i \in shown
        THEN LET d == CHOOSE d \in { deployments[k] : k \in 1..Len(deployments) } : d.id = i
             IN << [state |-> ListCurrentState(d.snapshot), hidden |-> FALSE] >>
        ELSE IF /\ seen[i] # <<>>
                /\ \E k \in 1..Len(deployments) :
                     /\ deployments[k].id = i
                     /\ ListSkipsCompleted(deployments[k].snapshot)
          THEN << [seen[i][1] EXCEPT !.hidden = TRUE] >>
          ELSE seen[i] ]

\* processDeploymentUpdates without the deletion of a skipped deployment's
\* entry: the entry outlives the time the deployment is hidden.
RECURSIVE ProcessDeploymentUpdatesKeeping(_, _, _, _)
ProcessDeploymentUpdatesKeeping(deployments, i, states, shown) ==
  IF i > Len(deployments)
    THEN [states |-> states, displayed |-> shown]
    ELSE
      LET deployment == deployments[i]
          currentState == ListCurrentState(deployment.snapshot)
          lastState == states[deployment.id]
      IN
      IF ListSkipsCompleted(deployment.snapshot)
        THEN ProcessDeploymentUpdatesKeeping(deployments, i + 1, states, shown)
        ELSE IF lastState = <<>> \/ lastState[1] # currentState
          THEN ProcessDeploymentUpdatesKeeping(deployments, i + 1,
                 [states EXCEPT ![deployment.id] = <<currentState>>],
                 shown \cup {deployment.id})
          ELSE ProcessDeploymentUpdatesKeeping(deployments, i + 1, states, shown)

\* DeploymentList.processDeploymentUpdates: the for loop from index i on,
\* over the map `states`, with `shown` the ids displayed so far.
RECURSIVE ProcessDeploymentUpdates(_, _, _, _)
ProcessDeploymentUpdates(deployments, i, states, shown) ==
  IF i > Len(deployments)
    THEN [states |-> states, displayed |-> shown]
    ELSE
      LET deployment == deployments[i]
          currentState == ListCurrentState(deployment.snapshot)
          lastState == states[deployment.id]
          skipped == ListSkipsCompleted(deployment.snapshot)
          hasChanges ==
            \/ lastState = <<>>
            \/ lastState[1].status # currentState.status
            \/ lastState[1].progress # currentState.progress
            \/ lastState[1].errorCount # currentState.errorCount
            \/ lastState[1].warningCount # currentState.warningCount
      IN
      IF skipped
        THEN ProcessDeploymentUpdates(deployments, i + 1,
               [states EXCEPT ![deployment.id] = <<>>], shown)
        ELSE IF hasChanges
          THEN ProcessDeploymentUpdates(deployments, i + 1,
                 [states EXCEPT ![deployment.id] = <<currentState>>],
                 shown \cup {deployment.id})
          ELSE ProcessDeploymentUpdates(deployments, i + 1, states, shown)

\* One iteration of the while (true) of DeploymentList.watchDeployments.  The
\* loop ends only through this.exit(1) in the catch block.
ListPoll ==
  /\ cmd = "list" /\ pc = "loop"
  /\ \E r \in ListDeployments :
       /\ resp' = r
       /\ failStreak' = IF r.kind = "error" THEN failStreak + 1 ELSE 0
       /\ IF r.kind = "ok"
            THEN
              /\ IF json
                   THEN UNCHANGED << deploymentStates, lastDisplayed >> /\ displayed' = {}
                   ELSE LET after == ProcessDeploymentUpdates(
                                       r.deployments, 1, deploymentStates, {})
                        IN /\ deploymentStates' = after.states
                           /\ displayed' = after.displayed
                           /\ lastDisplayed' =
                                ListSeen(r.deployments, after.displayed, lastDisplayed)
              /\ consecutiveErrors' = 0
              /\ pc' = "loop" /\ exitCode' = <<>> /\ report' = report
            ELSE
              /\ consecutiveErrors' = consecutiveErrors + 1
              /\ IF TooManyErrors(consecutiveErrors + 1)
                   THEN pc' = "done" /\ exitCode' = <<1>> /\ report' = "tooManyErrors"
                   ELSE pc' = "loop" /\ exitCode' = <<>> /\ report' = report
              /\ displayed' = {}
              /\ UNCHANGED << deploymentStates, lastDisplayed >>
  /\ UNCHANGED << flags, runState, shipState, lastStatus, lastProgress, lastErrorCount,
                  lastWarningCount, errorsShown, repeated, maxSeen, polledStatus,
                  maxWarnings, emitted,
                  errorsRendered, noticesShown >>
  /\ slept' = (pc' = "loop")

\* ------------------------------------------ deployment:deploy (part_006)
\* Outcomes of DeploymentService.completeDeployment: it returns or throws.
CompleteOutcomes == { "ok", "throw" }

\* Fetch results the ship loop tells apart: it never reads
\* deploymentWarnings, and of deploymentErrors only whether it is empty.
\* Two progress values (none, read as 0, and 10) let the progress rise and
\* fall.
ShipFetches ==
  { r \in ListDeploymentsById :
      r.kind = "ok" =>
        /\ r.deployments[1].deploymentWarnings = <<>>
        /\ r.deployments[1].percentComplete \in { <<>>, <<10>> }
        /\ r.deployments[1].deploymentErrors \in { <<>>, <<1>> } }

\* One fetch result for each way an iteration of the ship loop goes.
ShipPackageFetches ==
  { r \in ShipFetches :
      r.kind = "ok" =>
        /\ r.deployments[1].percentComplete = <<>>
        /\ r.deployments[1].status \in
             { "InProgress", "AwaitingVerification", "Failed", "Succeeded" }
        /\ r.deployments[1].deploymentErrors # <<>> =>
             r.deployments[1].status = "InProgress" }

\* `errorCount > 0 && !flags.json && !flags['continue-on-errors']`
ShipFailsOnErrors(errorCount) == errorCount > 0 /\ ~json /\ ~continueOnErrors

\* The ship loop reaches its completeDeployment call on this fetch result.
ShipCallsComplete(r) ==
  /\ r.kind = "ok" /\ Len(r.deployments) > 0
  /\ ~ShipFailsOnErrors(LengthOrZero(r.deployments[1].deploymentErrors))
  /\ toLowerCase(r.deployments[1].status) = "awaitingverification"

\* Mutant of ShipBreaks: the loop breaks whatever the complete call did.
ShipBreaksUnawaited(awaiting, completeThrew, succeeded) == awaiting \/ succeeded

\* The two `break`s of the ship loop: after completeDeployment returned,
\* and on status succeeded.
ShipBreaks(awaiting, completeThrew, succeeded) ==
  (awaiting /\ ~completeThrew) \/ succeeded

\* One iteration of the while (true) of
\* DeploymentDeploy.watchAndCompleteDeployment for fetch result r, with the
\* part of run that follows the loop: a break lets run report success (exit
\* code 0); an error thrown out of the catch block reaches run's catch, which
\* exits with 1.  Every throw of the try block (deployment not found, errors
\* detected, completeDeployment rejected, status failed) lands in the loop's
\* own catch block.  completeOutcome is what completeDeployment does if called.
ShipIteration(r, completeOutcome) ==
  LET found == r.kind = "ok" /\ Len(r.deployments) > 0
      deployment == IF found THEN r.deployments[1] ELSE NoDeployment
      currentStatus == deployment.status
      currentProgress == OrZero(deployment.percentComplete)
      statusChanged == found /\ currentStatus # lastStatus /\ ~json
      progressed == found /\ ProgressIncreased(currentProgress, lastProgress) /\ ~json
      errorCount == LengthOrZero(deployment.deploymentErrors)
      failOnErrors == found /\ ShipFailsOnErrors(errorCount)
      awaiting == ShipCallsComplete(r)
      succeeded ==
        /\ found /\ ~failOnErrors /\ ~awaiting
        /\ toLowerCase(currentStatus) = "succeeded"
      failed ==
        /\ found /\ ~failOnErrors /\ ~awaiting /\ ~succeeded
        /\ toLowerCase(currentStatus) = "failed"
      completeThrew == awaiting /\ completeOutcome = "throw"
      thrown == ~found \/ failOnErrors \/ completeThrew \/ failed
      broke == ShipBreaks(awaiting, completeThrew, succeeded)
  IN
  /\ lastStatus' = IF statusChanged THEN currentStatus ELSE lastStatus
  /\ lastProgress' = IF progressed THEN currentProgress ELSE lastProgress
  /\ emitted' =
       [ status |-> IF statusChanged THEN <<lastStatus, currentStatus>> ELSE <<>>,
         progress |-> IF progressed THEN <<currentProgress>> ELSE <<>>,
         errors |-> IF failOnErrors THEN <<errorCount>> ELSE <<>>,
         notice |-> FALSE,
         warnings |-> <<>> ]
  /\ completeCalls' = IF awaiting THEN completeCalls + 1 ELSE completeCalls
  /\ completeFailures' = IF completeThrew THEN completeFailures + 1 ELSE completeFailures
  /\ IF broke
       THEN /\ pc' = "done" /\ exitCode' = <<0>>
            /\ report' = IF awaiting THEN "completed" ELSE "succeeded"
            /\ UNCHANGED consecutiveErrors
       ELSE IF thrown
         THEN /\ consecutiveErrors' = consecutiveErrors + 1
              /\ IF TooManyErrors(consecutiveErrors + 1)
                   THEN pc' = "done" /\ exitCode' = <<1>> /\ report' = "tooManyErrors"
                   ELSE pc' = "loop" /\ exitCode' = <<>> /\ report' = report
         ELSE /\ consecutiveErrors' = 0
              /\ pc' = "loop" /\ exitCode' = <<>> /\ report' = report

\* One poll of the ship loop, its fetch result drawn from the set given.
\* The ship loop keeps no watch session: only the result of its latest
\* fetch is recorded.
DeployPollOn(fetches) ==
  /\ cmd = "deploy" /\ pc = "loop"
  /\ \E r \in fetches :
       /\ resp' = r
       /\ UNCHANGED << repeated, maxSeen, polledStatus, maxWarnings, failStreak >>
       /\ IF ShipCallsComplete(r)
            THEN \E completeOutcome \in CompleteOutcomes :
                   /\ completeOutcome = "throw" => completeFailures < MaxCompleteFailures
                   /\ ShipIteration(r, completeOutcome)
            ELSE ShipIteration(r, "ok")
  /\ slept' = (pc' = "loop")
  /\ UNCHANGED << flags, runState, listState, lastErrorCount, lastWarningCount, errorsShown,
                  errorsRendered, noticesShown >>

\* A poll of the ship loop with any fetch result the loop tells apart.
DeployPoll == DeployPollOn(ShipFetches)

\* ------------------------------------------ the ship run around its loop
\* Mutant of setCredentials: the credentials are also saved to the store.
setCredentialsPersisting(c) == credentials' = <<c>> /\ keytar' = <<c>>

\* ApiClient.setCredentials: only this.credentials is assigned.
setCredentials(c) == credentials' = <<c>> /\ keytar' = keytar

\* ConfigManager.setApiEndpoint: assigns config.apiEndpoint and saves the file.
setApiEndpoint(endpoint) == apiEndpoint' = endpoint /\ configFile' = endpoint

\* A call through ApiClient.request from a command: request() first loads
\* the stored credentials when the client has none (initialize), and throws
\* a plain Error when the store is empty.  Nothing is sent when no
\* Authorization header can be built.
Call(name, response) ==
  LET creds == IF credentials # <<>> THEN credentials ELSE keytar
      sent == creds # <<>> /\ isValidBase64(creds[1].clientSecret)
  IN
  /\ credentials' = creds /\ keytar' = keytar
  /\ apiCalls' = Append(apiCalls, name)
  /\ apiResponse' = IF sent THEN response ELSE NoApiResponse
  /\ apiResult' = IF creds = <<>>
                    THEN [kind |-> "Error", status |-> 0, errors |-> <<>>]
                    ELSE request(creds[1], response)

\* Values of --api-endpoint and of --client-key / --client-secret.
ApiEndpointFlags == { <<>>, <<OverrideEndpoint>> }
ClientKeyFlags == { <<>>, <<OverrideCredentials.clientKey>> }
ClientSecretFlags == { <<>>, <<OverrideCredentials.clientSecret>> }

\* The polling-loop variables, which the steps around the loops leave alone.
loopState ==
  << lastStatus, lastProgress, lastErrorCount, lastWarningCount, consecutiveErrors,
     errorsShown, resp, repeated, maxSeen, polledStatus, maxWarnings, failStreak, slept,
     emitted, errorsRendered,
     noticesShown, listState, shipState >>

\* watchAndCompleteDeployment has returned or the process has ended: its
\* locals, and what the latest poll returned and logged, no longer exist.
LoopLocalsGone ==
  /\ lastStatus' = "" /\ lastProgress' = -1 /\ consecutiveErrors' = 0
  /\ resp' = NoResponse /\ repeated' = FALSE /\ maxSeen' = -1
  /\ polledStatus' = <<>> /\ maxWarnings' = 0
  /\ failStreak' = 0 /\ slept' = FALSE /\ emitted' = NoEvents

\* DeploymentDeploy.setupCredentials, called first thing in run's try block.
\* An error thrown here reaches run's catch (this.exit(1)) and then finally.
ShipSetup ==
  /\ cmd = "deploy" /\ pc = "setup"
  /\ \E apiEndpointFlag \in ApiEndpointFlags, clientKey \in ClientKeyFlags,
        clientSecret \in ClientSecretFlags, skipValidation \in BOOLEAN,
        response \in Responses :
       LET either == clientKey # <<>> \/ clientSecret # <<>>
           both == clientKey # <<>> /\ clientSecret # <<>>
           overrideCredentials ==
             [ clientKey |-> clientKey[1], clientSecret |-> clientSecret[1],
               projectId |-> IF keytar # <<>> THEN keytar[1].projectId ELSE <<>> ]
           validated == validateCredentials(credentials, overrideCredentials, response)
           thrown ==
             \/ either /\ ~both
             \/ both /\ ~skipValidation /\ validated.outcome # "valid"
             \/ ~either /\ keytar = <<>>
       IN
       /\ originalCredentials' = keytar
       /\ originalApiEndpoint' = <<apiEndpoint>>
       /\ IF apiEndpointFlag # <<>>
            THEN setApiEndpoint(apiEndpointFlag[1])
            ELSE UNCHANGED << apiEndpoint, configFile >>
       /\ IF both /\ ~skipValidation
            THEN /\ apiCalls' = Append(apiCalls, "validate")
                 /\ apiResponse' = response
                 /\ apiResult' = validated.result
            ELSE UNCHANGED << apiCalls, apiResponse, apiResult >>
       /\ IF both /\ ~thrown
            THEN setCredentials(overrideCredentials)
            ELSE IF both /\ ~skipValidation
              THEN credentials' = validated.credentials /\ keytar' = keytar
              ELSE UNCHANGED << credentials, keytar >>
       /\ IF thrown
            THEN pc' = "done" /\ exitCode' = <<1>> /\ report' = "setupFailed"
            ELSE pc' = "prepare" /\ exitCode' = <<>> /\ report' = report
  /\ UNCHANGED << flags, loopState, before, args, options, payload, validation,
                  localState >>

\* What the ship workflow passes to startDeployment.
ShipStartOptions(packagePath) ==
  [ targetEnvironment |-> "integration", sourceEnvironment |-> <<>>,
    sourceApp |-> <<>>,
    deploymentPackages |-> << << fileNameText(basename(packagePath)) >> >>,
    useMaintenancePage |-> <<>> ]

\* The values of args.directory: a directory that exists and a path that
\* does not.
Directories == { "./app", "./missing" }
\* The values of --output of the ship workflow, and the statuses the storage
\* service answers a PUT with (0: no answer).
ShipOutputFlags == { <<>>, <<"./packages">>, <<"/tmp/out">> }
StorageStatuses == { 201, 412, 0 }
\* The source directory of the ship runs: one with a .gitignore.
ShipTrees == { t \in SourceTrees : t.gitignore # <<>> }
\* The package flags of the ship runs: --type=head --version=1.0.0.
ShipVersion == << <<"1", "0", "0">> >>

\* DeploymentDeploy.createPackage: the path of the package and the disk
\* once it is written.  A file already at that path is removed first.
createPackage(files, tree, output) ==
  LET outputDir == IF output # <<>> THEN resolve(output[1]) ELSE tmpdir
      packageInfo == deployGeneratePackageInfo("head", ShipVersion, <<>>, "cms", 0)
      packagePath == join(outputDir, packageInfo.name)
      removed == IF existsSync(files, packagePath) THEN unlinkSync(files, packagePath)
                                                   ELSE files
  IN [ packagePath |-> packagePath,
       files |-> writeFile(removed, packagePath, createPackageFile(tree)) ]

\* Steps 1 to 3 of run, after setupCredentials: the directory checks,
\* createPackage, uploadPackage and startDeployment.  Whatever throws
\* reaches run's catch (this.exit(1)); otherwise run enters the polling
\* loop.  The inputs are drawn from the sets given.
ShipPrepareOn(outputs, trees) ==
  /\ cmd = "deploy" /\ pc = "prepare"
  /\ \E directory \in Directories, output \in outputs, tree \in trees,
        projectId \in { <<>>, <<ValidGuid>> },
        sasResponse \in Responses, storageStatus \in StorageStatuses,
        startResponse \in Responses :
       LET created == createPackage(disk, tree, output)
           creds == IF credentials # <<>> THEN credentials ELSE keytar
           uploaded == uploadPackage(created.files, created.packagePath, projectId,
                                     keytar, defaultProjectId, creds,
                                     sasResponse, storageStatus)
           started == request(creds[1], startResponse)
           startSent == isValidBase64(creds[1].clientSecret)
       IN
       IF directory = "./missing"
         THEN /\ pc' = "done" /\ exitCode' = <<1>> /\ report' = "directoryNotFound"
              /\ UNCHANGED << options, payload, credentials, keytar, apiCalls,
                              apiResponse, apiResult, disk, tempPackagePath, storage >>
         ELSE
           /\ disk' = created.files
           /\ tempPackagePath' = << created.packagePath >>
           /\ keytar' = keytar
           /\ credentials' = IF uploaded.calls # <<>> THEN creds ELSE credentials
           /\ storage' = storage \o uploaded.puts
           /\ IF ~uploaded.ok
                THEN /\ pc' = "done" /\ exitCode' = <<1>> /\ report' = "uploadFailed"
                     /\ apiCalls' = apiCalls \o uploaded.calls
                     /\ apiResponse' = IF uploaded.calls # <<>>
                                         THEN uploaded.response ELSE apiResponse
                     /\ apiResult' = IF uploaded.calls # <<>>
                                       THEN uploaded.result ELSE apiResult
                     /\ UNCHANGED << options, payload >>
                ELSE
                  /\ options' = << ShipStartOptions(created.packagePath) >>
                  /\ payload' = << StartPayload(ShipStartOptions(created.packagePath)) >>
                  /\ apiCalls' = apiCalls \o uploaded.calls \o <<"start">>
                  /\ apiResponse' = IF startSent THEN startResponse ELSE NoApiResponse
                  /\ apiResult' = started
                  /\ IF started.kind = "result"
                       THEN pc' = "loop" /\ exitCode' = <<>> /\ report' = report
                       ELSE pc' = "done" /\ exitCode' = <<1>> /\ report' = "startFailed"
  /\ UNCHANGED << flags, loopState, before, args, validation, shipRun,
                  apiEndpoint, configFile, defaultProjectId >>

\* The ship run that writes its package to the temporary directory.
ShipPrepare == ShipPrepareOn({ <<>> }, ShipTrees)

\* The process is interrupted (SIGINT) while the polling loop runs or
\* sleeps.  The command installs no signal handler: the process ends at
\* once, and neither run's catch nor its finally block is executed.
\* The locals of the loop are gone with it.
ShipCancel ==
  /\ cmd = "deploy" /\ pc = "loop"
  /\ pc' = "killed" /\ exitCode' = <<130>>
  /\ LoopLocalsGone
  /\ UNCHANGED << flags, runState, report, listState, shipState,
                  lastErrorCount, lastWarningCount, errorsShown,
                  errorsRendered, noticesShown >>

\* DeploymentDeploy.cleanup, run from the finally block of run.
ShipCleanup ==
  /\ cmd = "deploy" /\ pc = "done"
  /\ IF originalCredentials # <<>>
       THEN setCredentials(originalCredentials[1])
       ELSE UNCHANGED << credentials, keytar >>
  /\ IF TruthyString(originalApiEndpoint)
       THEN setApiEndpoint(originalApiEndpoint[1])
       ELSE UNCHANGED << apiEndpoint, configFile >>
  /\ disk' = IF /\ tempPackagePath # <<>>
                  /\ includesTmpdir(tempPackagePath[1])
                  /\ existsSync(disk, tempPackagePath[1])
               THEN unlinkSync(disk, tempPackagePath[1])
               ELSE disk
  /\ pc' = "exited"
  /\ LoopLocalsGone
  /\ UNCHANGED << flags, shipRun, callState, before, exitCode, report,
                  tempPackagePath, defaultProjectId, storage,
                  listState, shipState, lastErrorCount, lastWarningCount,
                  errorsShown, errorsRendered, noticesShown >>

\* ------------------------------------------- deployment:start (start.ts run)
\* Flag values of deployment:start.  --packages and --source-app are
\* `multiple` string flags: absent, or a non-empty list.
TargetFlags == { "", " ", "integration" }
SourceFlags == { <<>>, <<"">>, <<"preproduction">> }
PackagesFlags == { <<>>, << <<"app.zip">> >> }
SourceAppFlags == { <<>>, << <<"cms">> >> }
ProjectIdFlags == { <<>>, <<ValidGuid>>, <<InvalidGuid>> }

\* Answers of the --interactive prompt: <<>> without --interactive, else the
\* deployment type with the source chosen or the package names entered
\* (split on commas and trimmed, so an empty input gives [""]), and the
\* maintenance page confirmation.  answers.target exists only when
\* --target is falsy.
Answers ==
  { <<>> } \cup
  { << [ target |-> "integration", deploymentType |-> "packages", source |-> <<>>,
         packages |-> <<p>>, maintenancePage |-> m ] >> :
      p \in { <<"">>, <<"app.zip">> }, m \in BOOLEAN } \cup
  { << [ target |-> "integration", deploymentType |-> "environment",
         source |-> <<"production">>, packages |-> <<>>, maintenancePage |-> m ] >> :
      m \in BOOLEAN }

NoArgs == <<>>

\* Mutant of StartRejected: the target is not trimmed.
StartRejectedUntrimmed(target, projectId, source, packages) ==
  \/ target = ""
  \/ TruthyString(projectId) /\ ~isValidGuid(projectId[1])
  \/ ~TruthyString(source) /\ ~HasLength(packages)

\* The basic validation of DeploymentStart.run rejects the command.
StartRejected(target, projectId, source, packages) ==
  \/ target = "" \/ trim(target) = ""
  \/ TruthyString(projectId) /\ ~isValidGuid(projectId[1])
  \/ ~TruthyString(source) /\ ~HasLength(packages)

\* DeploymentStart.run up to the point where it calls watchDeployment or
\* returns.  this.exit(1) throws, so nothing follows a rejected validation.
StartRun ==
  /\ cmd = "start" /\ pc = "run"
  /\ \E targetFlag \in TargetFlags, sourceFlag \in SourceFlags,
        packagesFlag \in PackagesFlags, sourceApp \in SourceAppFlags,
        maintenancePageFlag \in BOOLEAN, projectId \in ProjectIdFlags,
        answers \in Answers, watch \in BOOLEAN, response \in Responses :
       LET interactive == answers # <<>>
           target ==
             IF interactive /\ targetFlag = "" THEN answers[1].target ELSE targetFlag
           source == IF interactive THEN answers[1].source ELSE sourceFlag
           packages ==
             IF interactive /\ ~HasLength(packagesFlag)
               THEN answers[1].packages ELSE packagesFlag
           maintenancePage ==
             IF interactive THEN answers[1].maintenancePage ELSE maintenancePageFlag
           startOptions ==
             [ targetEnvironment |-> target, sourceEnvironment |-> source,
               sourceApp |-> sourceApp, deploymentPackages |-> packages,
               useMaintenancePage |-> <<maintenancePage>> ]
           resolved == getProjectId(projectId, keytar, <<>>)
       IN
       /\ args' = << [ target |-> target, source |-> source, packages |-> packages,
                       projectId |-> projectId ] >>
       /\ IF StartRejected(target, projectId, source, packages)
            THEN /\ pc' = "done" /\ exitCode' = <<1>> /\ report' = "rejected"
                 /\ UNCHANGED << options, payload, credentials, keytar,
                                 apiCalls, apiResponse, apiResult >>
            ELSE IF resolved = <<>>
              THEN /\ pc' = "done" /\ exitCode' = <<1>> /\ report' = "startFailed"
                   /\ options' = <<startOptions>>
                   /\ UNCHANGED << payload, credentials, keytar,
                                   apiCalls, apiResponse, apiResult >>
              ELSE /\ options' = <<startOptions>>
                   /\ payload' = <<StartPayload(startOptions)>>
                   /\ Call("start", response)
                   /\ IF apiResult'.kind # "result"
                        THEN pc' = "done" /\ exitCode' = <<1>> /\ report' = "startFailed"
                        ELSE IF watch /\ ~json
                          THEN pc' = "started" /\ exitCode' = <<>> /\ report' = report
                          ELSE pc' = "done" /\ exitCode' = <<0>> /\ report' = "started"
  /\ UNCHANGED << flags, loopState, before, validation, shipRun, localState,
                  apiEndpoint, configFile >>

\* run calls this.watchDeployment; the values of the start call are not
\* used again.
StartWatch ==
  /\ cmd = "start" /\ pc = "started"
  /\ pc' = "loop"
  /\ args' = NoArgs /\ options' = NoOptions /\ payload' = NoPayload
  /\ apiResponse' = NoApiResponse /\ apiResult' = NoResult
  /\ UNCHANGED << flags, loopState, before, validation, shipRun, localState, clientState,
                  apiCalls, exitCode, report >>

\* ---------------------------------------------- deployment:reset (part_004)
\* DeploymentService.resetDeployment as DeploymentReset.run calls it, with
\* run's catch block (this.exit(1)).
ResetCall(projectId) ==
  IF getProjectId(projectId, keytar, <<>>) = <<>>
    THEN /\ pc' = "done" /\ exitCode' = <<1>> /\ report' = "resetFailed"
         /\ UNCHANGED << credentials, keytar, apiCalls, apiResponse, apiResult >>
    ELSE \E response \in Responses :
           /\ Call("reset", response)
           /\ pc' = "done"
           /\ IF apiResult'.kind = "result"
                THEN exitCode' = <<0>> /\ report' = "reset"
                ELSE exitCode' = <<1>> /\ report' = "resetFailed"

\* Mutant of Declined: no answer stops the command.
DeclinedNever(confirmed) == FALSE

\* `!answers.confirmed`
Declined(confirmed) == ~confirmed

\* DeploymentReset.run up to its confirmation prompt.
ResetRun ==
  /\ cmd = "reset" /\ pc = "run"
  /\ \E deploymentId \in { ValidGuid, InvalidGuid }, projectId \in ProjectIdFlags,
        force \in BOOLEAN :
       /\ args' = << [ deploymentId |-> deploymentId, projectId |-> projectId,
                       force |-> force, confirmed |-> <<>> ] >>
       /\ IF \/ ~isValidGuid(deploymentId)
             \/ TruthyString(projectId) /\ ~isValidGuid(projectId[1])
            THEN /\ pc' = "done" /\ exitCode' = <<1>> /\ report' = "rejected"
                 /\ UNCHANGED << credentials, keytar, apiCalls, apiResponse, apiResult >>
            ELSE IF ~force
              THEN /\ pc' = "prompt" /\ exitCode' = <<>> /\ report' = report
                   /\ UNCHANGED << credentials, keytar, apiCalls, apiResponse, apiResult >>
              ELSE ResetCall(projectId)
  /\ UNCHANGED << flags, loopState, before, validation, shipRun, localState, options, payload,
                  apiEndpoint, configFile >>

\* The operator answers the prompt.
ResetPrompt ==
  /\ cmd = "reset" /\ pc = "prompt"
  /\ \E confirmed \in BOOLEAN :
       /\ args' = << [args[1] EXCEPT !.confirmed = <<confirmed>>] >>
       /\ IF Declined(confirmed)
            THEN /\ pc' = "done" /\ exitCode' = <<0>> /\ report' = "cancelled"
                 /\ UNCHANGED << credentials, keytar, apiCalls, apiResponse, apiResult >>
            ELSE ResetCall(args[1].projectId)
  /\ UNCHANGED << flags, loopState, before, validation, shipRun, localState, options,
                  payload, apiEndpoint, configFile >>

\* --------------------------------------- DeploymentService.startDeployment
\* One call of startDeployment with any options (the project id is given).
StartDeploymentCall ==
  /\ cmd = "startDeployment" /\ pc = "run"
  /\ \E o \in StartOptions, response \in Responses :
       /\ options' = <<o>>
       /\ payload' = <<StartPayload(o)>>
       /\ Call("start", response)
  /\ pc' = "done"
  /\ UNCHANGED << flags, loopState, before, validation, shipRun, localState, args,
                  apiEndpoint, configFile, exitCode, report >>

\* ------------------------------------------ ApiClient.validateCredentials
\* One call of validateCredentials on a client whose credentials are null
\* or set, with any credentials to validate.
ValidateCall ==
  /\ cmd = "validate" /\ pc = "run"
  /\ \E creds \in CredentialValues, response \in Responses :
       LET validated == validateCredentials(credentials, creds, response)
       IN
       /\ args' = <<creds>>
       /\ credentials' = validated.credentials /\ keytar' = keytar
       /\ validation' = validated.outcome
       /\ apiCalls' = Append(apiCalls,
            IF TruthyString(creds.projectId) THEN "deployments" ELSE "projects")
       /\ apiResponse' = IF isValidBase64(creds.clientSecret) THEN response
                                                              ELSE NoApiResponse
       /\ apiResult' = validated.result
  /\ pc' = "done"
  /\ UNCHANGED << flags, loopState, before, shipRun, localState, options, payload,
                  apiEndpoint, configFile, exitCode, report >>

\* ------------------------------------------ package:create (package/create.ts)
\* The values of --output of package:create ('.' is the default).
CreateOutputFlags == { ".", "./packages" }

\* PackageCreate.run.  The directory checks exit with 1 before the try
\* block; inside it, the exit(1) of an occupied package path is caught by
\* run's catch block, which exits with 1 again.  run keeps its flags and its
\* locals packageInfo and packagePath in args.  (Directories are not files
\* of the model's disk: mkdirSync leaves it as it is.)
PackageCreateRun ==
  /\ cmd = "package:create" /\ pc = "run"
  /\ \E directory \in Directories, type \in PackageTypes, version \in VersionFlags,
        prefix \in PrefixFlags, output \in CreateOutputFlags, tree \in SourceTrees :
     \E dbType \in (IF type = "sqldb" THEN DbTypes ELSE { "cms" }),
        now \in (IF Falsy(version) THEN Instants ELSE { 0 }),
        zone \in (IF Falsy(version) THEN Zones ELSE { 0 }) :
       LET packageInfo == generatePackageInfo(type, version, prefix, dbType, now, zone)
           packagePath == join(resolve(output), packageInfo.name)
           found == directory # "./missing"
       IN
       /\ args' = << [ directory |-> directory, type |-> type, version |-> version,
                       prefix |-> prefix, output |-> output, dbType |-> dbType,
                       now |-> now, zone |-> zone, tree |-> tree,
                       packageInfo |-> IF found THEN <<packageInfo>> ELSE <<>>,
                       packagePath |-> IF found THEN <<packagePath>> ELSE <<>> ] >>
       /\ IF ~found
            THEN /\ exitCode' = <<1>> /\ report' = "directoryNotFound"
                 /\ disk' = disk
            ELSE IF existsSync(disk, packagePath)
              THEN /\ exitCode' = <<1>> /\ report' = "packageExists"
                   /\ disk' = disk
              ELSE /\ exitCode' = <<0>> /\ report' = "created"
                   /\ disk' = writeFile(disk, packagePath, createPackageArchive(tree))
  /\ pc' = "done"
  /\ UNCHANGED << flags, loopState, before, validation, shipRun, clientState,
                  options, payload, apiCalls, apiResponse, apiResult,
                  tempPackagePath, defaultProjectId, storage >>

\* --------------------------------- DeploymentDeploy.generatePackageInfo
\* One call of the ship workflow's generatePackageInfo with any flags, at
\* any instant.
DeployPackageInfoCall ==
  /\ cmd = "generatePackageInfo" /\ pc = "run"
  /\ \E type \in PackageTypes, version \in VersionFlags, prefix \in PrefixFlags :
     \E dbType \in (IF type = "sqldb" THEN DbTypes ELSE { "cms" }),
        now \in (IF Falsy(version) THEN Instants ELSE { 0 }) :
       args' = << [ type |-> type, version |-> version, prefix |-> prefix,
                    dbType |-> dbType, now |-> now,
                    packageInfo |->
                      << deployGeneratePackageInfo(type, version, prefix, dbType, now) >> ] >>
  /\ pc' = "done"
  /\ UNCHANGED << flags, loopState, before, validation, shipRun, clientState,
                  localState, options, payload, apiCalls, apiResponse, apiResult,
                  exitCode, report >>

\* --------------------------------------------- HmacSigner.createSignature
Methods == { "get", "GET", "Get", "post", "POST" }
Paths == { "projects/p1/deployments", "projects/p1/deployments/d1" }
SignedBodies == { <<>>, <<"">>, <<"{}">> }
Clock == { 0, 7, 1700 }

\* One call of createSignature, directly with any arguments or through
\* createAuthHeaders, at any instant and with any nonce drawn.
CreateSignatureCall ==
  /\ cmd = "createSignature" /\ pc = "run"
  /\ \E c \in CredentialValues, method \in Methods, path \in Paths,
        now \in Clock, uuid \in UUIDs :
       \/ \E body \in SignedBodies :
            args' = << [ entry |-> "createSignature", credentials |-> << c >>,
                         method |-> method, path |-> path, body |-> body,
                         now |-> now, uuid |-> uuid,
                         signed |-> createSignature(c.clientKey, c.clientSecret, method,
                                                    path, body, now, uuid),
                         headers |-> << >> ] >>
       \/ \E creds \in { <<>>, << c >> }, body \in RequestBodies :
            args' = << [ entry |-> "createAuthHeaders", credentials |-> creds,
                         method |-> method, path |-> path, body |-> << body >>,
                         now |-> now, uuid |-> uuid,
                         signed |-> [ threw |-> TRUE, value |-> NoSignature ],
                         headers |->
                           << createAuthHeaders(creds, method, path, body, now, uuid) >> ] >>
  /\ pc' = "done"
  /\ UNCHANGED << flags, loopState, before, validation, shipRun, clientState,
                  localState, options, payload, apiCalls, apiResponse, apiResult,
                  exitCode, report >>

\* ------------------------------------------- PackageService.uploadPackage
\* The file paths an upload is pointed at: the files of EarlierFiles and a
\* path no file is at.
UploadPaths ==
  DOMAIN EarlierFiles \cup { join("/work", <<"head", "app", "3", "zip">>) }

\* One call of uploadPackage({filePath, projectId}) on a fresh client.
UploadPackageCall ==
  /\ cmd = "uploadPackage" /\ pc = "run"
  /\ \E filePath \in UploadPaths, projectId \in { <<>>, <<ValidGuid>> },
        sasResponse \in Responses, storageStatus \in StorageStatuses :
       LET creds == IF credentials # <<>> THEN credentials ELSE keytar
           uploaded == uploadPackage(disk, filePath, projectId, keytar,
                                     defaultProjectId, creds, sasResponse,
                                     storageStatus)
       IN
       /\ args' = << [ filePath |-> filePath, projectId |-> projectId ] >>
       /\ credentials' = IF uploaded.calls # <<>> THEN creds ELSE credentials
       /\ keytar' = keytar
       /\ apiCalls' = apiCalls \o uploaded.calls
       /\ apiResponse' = uploaded.response
       /\ apiResult' = uploaded.result
       /\ storage' = storage \o uploaded.puts
       /\ report' = IF uploaded.ok THEN "uploaded" ELSE "uploadFailed"
  /\ pc' = "done"
  /\ UNCHANGED << flags, loopState, before, validation, shipRun, options, payload,
                  apiEndpoint, configFile, exitCode, disk, tempPackagePath,
                  defaultProjectId >>

\* ------------------------------------------------- auth:login (auth/login.ts)
\* The credentials auth:login is given or asked for.
LoginCredentials(a) ==
  [ clientKey |-> a.clientKey[1], clientSecret |-> a.clientSecret[1],
    projectId |-> a.projectId ]

\* The end of run's try block: the credentials are saved to the store and
\* the configuration is updated.  When the store refuses the credentials
\* (keytar.setPassword rejects), run's outer catch block exits with 1; the
\* endpoint is then the one set before the validation, if there was one.
LoginSave(a) ==
  \/ /\ keytar' = << LoginCredentials(a) >>
     /\ setApiEndpoint(a.apiEndpoint)
     /\ defaultProjectId' = IF TruthyString(a.projectId) THEN a.projectId
                                                         ELSE defaultProjectId
     /\ pc' = "done" /\ exitCode' = <<0>> /\ report' = "Authentication successful"
  \/ /\ keytar' = keytar
     /\ IF a.skipValidation THEN UNCHANGED << apiEndpoint, configFile >>
                             ELSE setApiEndpoint(a.apiEndpoint)
     /\ defaultProjectId' = defaultProjectId
     /\ pc' = "done" /\ exitCode' = <<1>> /\ report' = "saveFailed"

\* run from "Validate project ID if provided" to the end or to the prompt of
\* the inner catch block, with the flags and answers a.  `this.exit(1)` for
\* valid=false is called inside the inner try block: the error it throws is
\* caught by the inner catch block like any other, which asks whether to
\* save the credentials anyway.
LoginSubmit(a, response) ==
  LET validated == validateCredentials(credentials, LoginCredentials(a), response)
  IN
  IF TruthyString(a.projectId) /\ ~isValidGuid(a.projectId[1])
    THEN /\ pc' = "done" /\ exitCode' = <<1>> /\ report' = "rejected"
         /\ UNCHANGED << clientState, defaultProjectId, apiCalls, apiResponse,
                         apiResult, validation >>
    ELSE IF a.skipValidation
      THEN /\ LoginSave(a)
           /\ UNCHANGED << credentials, apiCalls, apiResponse, apiResult, validation >>
      ELSE
        /\ apiCalls' = Append(apiCalls,
             IF TruthyString(a.projectId) THEN "deployments" ELSE "projects")
        /\ apiResponse' = IF isValidBase64(a.clientSecret[1]) THEN response
                                                              ELSE NoApiResponse
        /\ apiResult' = validated.result
        /\ validation' = validated.outcome
        /\ credentials' = validated.credentials
        /\ IF validated.outcome = "valid"
             THEN LoginSave(a)
             ELSE /\ setApiEndpoint(a.apiEndpoint)
                  /\ pc' = "askProceed" /\ exitCode' = <<>> /\ report' = report
                  /\ UNCHANGED << keytar, defaultProjectId >>

\* Mutant of hasCredentials: true for stored credentials with a blank part.
hasCredentialsBlank(store) ==
  store # <<>> /\ ~(store[1].clientKey # "" /\ store[1].clientSecret # "")

\* AuthManager.hasCredentials on the content of the credential store.
hasCredentials(store) ==
  store # <<>> /\ (store[1].clientKey # "" /\ store[1].clientSecret # "")

\* Values of --client-key, --client-secret and --api-endpoint of auth:login.
LoginEndpointFlags == { DefaultEndpoint, OverrideEndpoint }

\* AuthLogin.run up to its first prompt, or to its end when it asks nothing.
LoginRun ==
  /\ cmd = "login" /\ pc = "run"
  /\ \E clientKey \in ClientKeyFlags, clientSecret \in ClientSecretFlags,
        projectId \in ProjectIdFlags, endpoint \in LoginEndpointFlags,
        force \in BOOLEAN, skipValidation \in BOOLEAN, response \in Responses :
       LET a == [ clientKey |-> clientKey, clientSecret |-> clientSecret,
                  projectId |-> projectId, apiEndpoint |-> endpoint,
                  force |-> force, skipValidation |-> skipValidation,
                  prompts |-> <<>> ]
       IN
       /\ args' = <<a>>
       /\ IF ~force /\ hasCredentials(keytar)
            THEN /\ pc' = "done" /\ exitCode' = <<0>> /\ report' = "alreadyAuthenticated"
                 /\ UNCHANGED << clientState, defaultProjectId, apiCalls, apiResponse,
                                 apiResult, validation >>
            ELSE IF clientKey = <<>> \/ clientSecret = <<>>
              THEN /\ pc' = "askCredentials" /\ exitCode' = <<>> /\ report' = report
                   /\ UNCHANGED << clientState, defaultProjectId, apiCalls, apiResponse,
                                   apiResult, validation >>
              ELSE LoginSubmit(a, response)
  /\ UNCHANGED << flags, loopState, before, shipRun, options, payload,
                  disk, tempPackagePath, storage >>

\* The operator answers the prompts for the values the flags did not give.
\* The prompts accept no empty client key or secret.
LoginCredentialsPrompt ==
  /\ cmd = "login" /\ pc = "askCredentials"
  /\ \E response \in Responses :
       LET a == [ args[1] EXCEPT
                    !.clientKey = IF @ = <<>> THEN << OverrideCredentials.clientKey >> ELSE @,
                    !.clientSecret =
                      IF @ = <<>> THEN << OverrideCredentials.clientSecret >> ELSE @,
                    !.prompts = Append(@, "credentials") ]
       IN /\ args' = <<a>>
          /\ LoginSubmit(a, response)
  /\ UNCHANGED << flags, loopState, before, shipRun, options, payload,
                  disk, tempPackagePath, storage >>

\* The operator answers "Continue saving credentials anyway?".  On "no" the
\* catch block calls this.exit(0); the error that throws is caught by run's
\* outer catch block, which exits with 1.
LoginProceedPrompt ==
  /\ cmd = "login" /\ pc = "askProceed"
  /\ \E proceedAnyway \in BOOLEAN :
       /\ args' = << [ args[1] EXCEPT !.prompts = Append(@, "proceedAnyway") ] >>
       /\ IF proceedAnyway
            THEN LoginSave(args[1])
            ELSE /\ pc' = "done" /\ exitCode' = <<1>> /\ report' = "Authentication cancelled"
                 /\ UNCHANGED << keytar, apiEndpoint, configFile, defaultProjectId >>
  /\ UNCHANGED << flags, loopState, before, shipRun, options, payload, credentials,
                  apiCalls, apiResponse, apiResult, validation,
                  disk, tempPackagePath, storage >>

\* ------------------------------------------------------------ specification
\* One process runs one command, so the commands are checked apart: the ship
\* workflow under ShipSpec, the others under Spec.
Commands ==
  { "watch", "start", "complete", "list", "reset", "validate", "startDeployment",
    "package:create", "generatePackageInfo", "uploadPackage", "login" }
ShipCommands == { "deploy" }
SignCommands == { "createSignature" }

\* The state when the command begins: deployment:watch before its initial
\* fetch, deployment:start and deployment:reset on entry of run, the ship
\* workflow before setupCredentials, a validateCredentials call before it
\* is made, deployment:complete and deployment:list on entry of their loop
\* with the locals as declared there.  --continue-on-errors exists on watch,
\* start, complete and deploy; --json is read by start, list and deploy;
\* --show-completed exists on list.  The API client of a fresh process
\* holds no credentials; the store holds credentials or not.
InitOf(commands, disks) ==
  /\ cmd \in commands
  /\ continueOnErrors \in (IF cmd \in {"watch", "start", "complete", "deploy"}
                            THEN BOOLEAN ELSE {FALSE})
  /\ json \in (IF cmd \in {"start", "list", "deploy"} THEN BOOLEAN ELSE {FALSE})
  /\ showCompleted \in (IF cmd = "list" THEN BOOLEAN ELSE {FALSE})
  /\ pc = CASE cmd = "watch" -> "init"
            [] cmd \in {"complete", "list"} -> "loop"
            [] cmd = "deploy" -> "setup"
            [] OTHER -> "run"
  /\ lastStatus = ""
  /\ lastProgress = -1
  /\ lastErrorCount = 0
  /\ lastWarningCount = 0
  /\ consecutiveErrors = 0
  /\ errorsShown = FALSE
  /\ exitCode = <<>>
  /\ report = ""
  /\ resp = NoResponse
  /\ repeated = FALSE
  /\ maxSeen = -1
  /\ polledStatus = <<>>
  /\ maxWarnings = 0
  /\ failStreak = 0
  /\ slept = FALSE
  /\ emitted = NoEvents
  /\ errorsRendered = 0
  /\ noticesShown = 0
  /\ deploymentStates = [i \in DeploymentIds |-> <<>>]
  /\ displayed = {}
  /\ lastDisplayed = [i \in DeploymentIds |-> <<>>]
  /\ completeCalls = 0
  /\ completeFailures = 0
  /\ keytar \in (CASE cmd = "login" ->
                          { <<>>, <<StoredCredentials>>, <<BlankCredentials>> }
                     [] cmd \in {"deploy", "reset", "validate", "uploadPackage"} ->
                          { <<>>, <<StoredCredentials>> }
                     [] OTHER -> { <<StoredCredentials>> })
  /\ credentials \in (IF cmd = "validate"
                        THEN { <<>>, <<StoredCredentials>> }
                        ELSE { <<>> })
  /\ apiEndpoint = DefaultEndpoint
  /\ configFile = DefaultEndpoint
  /\ originalCredentials = <<>>
  /\ originalApiEndpoint = <<>>
  /\ args = NoArgs
  /\ options = NoOptions
  /\ payload = NoPayload
  /\ apiCalls = <<>>
  /\ apiResponse = NoApiResponse
  /\ apiResult = NoResult
  /\ validation = "none"
  /\ disk \in (IF cmd \in PackageCommands THEN disks ELSE { NoFiles })
  /\ tempPackagePath = <<>>
  /\ defaultProjectId \in (IF cmd = "login" THEN { <<>>, <<"p1">> } ELSE { <<>> })
  /\ storage = <<>>
  /\ before = [ credentials |-> credentials, keytar |-> keytar,
                apiEndpoint |-> apiEndpoint, configFile |-> configFile,
                defaultProjectId |-> defaultProjectId ]

Init == InitOf(Commands, { NoFiles, EarlierFiles })

ShipInit == InitOf(ShipCommands, { NoFiles })

Next ==
  \/ WatchRun
  \/ WatchPoll
  \/ StartWatchPoll
  \/ CompleteWatchPoll
  \/ ListPoll
  \/ StartRun
  \/ StartWatch
  \/ ResetRun
  \/ ResetPrompt
  \/ ValidateCall
  \/ StartDeploymentCall
  \/ PackageCreateRun
  \/ DeployPackageInfoCall
  \/ UploadPackageCall
  \/ LoginRun
  \/ LoginCredentialsPrompt
  \/ LoginProceedPrompt

Spec == Init /\ [][Next]_vars

\* The ship workflow with every fetch result its loop tells apart, the
\* package written to the temporary directory of a clean disk.
ShipNext ==
  \/ ShipSetup
  \/ ShipPrepare
  \/ DeployPoll
  \/ ShipCancel
  \/ ShipCleanup

ShipSpec == ShipInit /\ [][ShipNext]_vars

\* The ship workflow with every output directory, on a clean disk or on one
\* that holds earlier packages, and one fetch result per way the loop goes.
ShipPackageInit == InitOf(ShipCommands, { NoFiles, EarlierFiles })

ShipPackageNext ==
  \/ ShipSetup
  \/ ShipPrepareOn(ShipOutputFlags, ShipTrees)
  \/ DeployPollOn(ShipPackageFetches)
  \/ ShipCancel
  \/ ShipCleanup

ShipPackageSpec == ShipPackageInit /\ [][ShipPackageNext]_vars

\* Calls of the signer, checked on their own.
SignInit == InitOf(SignCommands, { NoFiles })
SignNext == CreateSignatureCall
SignSpec == SignInit /\ [][SignNext]_vars

\* ===================================================================== claims
\* The loops that keep a watch session (watchDeployment of watch.ts, start.ts
\* and complete.ts).
WatchCommands == { "watch", "start", "complete" }

\* The latest poll of a watch session returned a snapshot.
PolledOk == cmd \in WatchCommands /\ resp.kind = "ok"
Snapshot == resp.deployments[1]

SucceededSpellings == { "Succeeded", "SUCCEEDED" }
FailedSpellings == { "Failed", "failed" }
AwaitingSpellings == { "AwaitingVerification", "awaitingverification" }
TerminalSpellings == SucceededSpellings \cup FailedSpellings \cup AwaitingSpellings

\* The latest poll rendered newly detected errors.
RenderedErrors == emitted.errors # <<>>

\* The conclusions a loop logs with logError.
FailureReports == { "failed", "errorsDetected", "notFound", "tooManyErrors" }

\* ---------------------------------------------------------------------- C1
\* C1 as stated: in a watch session a successful poll whose status is
\* Succeeded, Failed or AwaitingVerification in any letter case ends the loop
\* at that poll, as success, failure and pause respectively; a successful
\* poll with another status and no newly detected errors leaves the loop
\* running (the next step is a fetch).
C1_TerminalStatusEndsLoopAsStated ==
  PolledOk =>
    /\ Snapshot.status \in SucceededSpellings => pc = "done" /\ report = "succeeded"
    /\ Snapshot.status \in FailedSpellings => pc = "done" /\ report \in FailureReports
    /\ Snapshot.status \in AwaitingSpellings =>
         pc = "done" /\ report = "awaitingverification"
    /\ (Snapshot.status \notin TerminalSpellings /\ ~RenderedErrors) => pc = "loop"

\* C1 amended: a successful poll with a terminal status always ends the loop
\* at that poll.  Failed ends it as a failure.  Succeeded ends it as success
\* and AwaitingVerification as a pause, unless that same poll newly detected
\* errors with continueOnErrors = false: then the loop ends with the
\* errors-detected failure instead.  A successful poll with another status
\* and no newly detected errors leaves the loop running.
C1_TerminalStatusEndsLoop ==
  PolledOk =>
    LET onErrors == RenderedErrors /\ ~continueOnErrors
        ends(as) == /\ pc = "done"
                    /\ report = IF onErrors THEN "errorsDetected" ELSE as
    IN
    /\ Snapshot.status \in SucceededSpellings => ends("succeeded")
    /\ Snapshot.status \in FailedSpellings => ends("failed")
    /\ Snapshot.status \in AwaitingSpellings => ends("awaitingverification")
    /\ (Snapshot.status \notin TerminalSpellings /\ ~RenderedErrors) => pc = "loop"

\* deployment:complete --watch polled "awaitingverification" (lower case) and
\* stopped there as a pause.
C1_Witness ==
  /\ cmd = "complete" /\ resp.kind = "ok"
  /\ Snapshot.status = "awaitingverification"
  /\ pc = "done" /\ report = "awaitingverification"

\* ---------------------------------------------------------------------- C2
\* C2: on every successful poll of a watch session a progress event is
\* emitted exactly when the polled progress is strictly greater than every
\* progress polled earlier in the session, and it carries that value;
\* lastProgress never decreases.
C2_MonotonicProgress ==
  [][ /\ lastProgress' >= lastProgress
      /\ (cmd \in WatchCommands /\ pc = "loop" /\ resp'.kind = "ok") =>
           LET p == Observed(resp'.deployments[1])
           IN emitted'.progress = IF p > maxSeen THEN <<p>> ELSE <<>>
    ]_vars

\* A poll returned 10 after 20 had been seen: the regression emitted nothing.
C2_Witness ==
  /\ PolledOk /\ pc = "loop"
  /\ maxSeen = 20 /\ Snapshot.percentComplete = <<10>>
  /\ emitted.progress = <<>> /\ lastProgress = 20

\* ---------------------------------------------------------------------- C3
\* C3: in a watch session at most one poll renders the error messages.
C3_ErrorsRenderedOnce ==
  cmd \in WatchCommands => errorsRendered <= 1

\* With continueOnErrors the errors were rendered once, and the latest poll
\* returned MaxErrorCount errors without rendering them again.
C3_Witness ==
  /\ PolledOk /\ continueOnErrors /\ pc = "loop"
  /\ errorsRendered = 1 /\ ~RenderedErrors
  /\ Snapshot.deploymentErrors = <<MaxErrorCount>>
  /\ lastErrorCount = MaxErrorCount

\* ---------------------------------------------------------------------- C4
\* A successful poll of a watch session is about to see more errors than
\* lastErrorCount while errors have not been shown yet.
DetectsNewErrors ==
  /\ cmd \in WatchCommands /\ pc = "loop" /\ resp'.kind = "ok"
  /\ ~errorsShown
  /\ resp'.deployments[1].deploymentErrors # <<>>
  /\ resp'.deployments[1].deploymentErrors[1] > lastErrorCount

\* C4 as stated: such a poll ends the loop when continueOnErrors = false,
\* whatever the status; when continueOnErrors = true the loop keeps polling
\* and the "continuing despite errors" notice appears exactly once in the
\* session.
C4_NewErrorsAsStated ==
  /\ [](cmd \in WatchCommands => noticesShown <= 1)
  /\ [][ DetectsNewErrors =>
           IF continueOnErrors
             THEN pc' = "loop" /\ emitted'.notice /\ noticesShown' = 1
             ELSE pc' = "done" /\ ~emitted'.notice /\ noticesShown' = 0
       ]_vars

\* C4 amended: with continueOnErrors = true the errors do not end the loop:
\* it keeps polling unless the status of that very poll is Succeeded, Failed
\* or AwaitingVerification (any case), which ends it; the notice appears at
\* that poll and exactly once in the session.  With continueOnErrors = false
\* the loop ends at that poll, whatever the status.
C4_NewErrors ==
  /\ [](cmd \in WatchCommands => noticesShown <= 1)
  /\ [][ DetectsNewErrors =>
           IF continueOnErrors
             THEN /\ emitted'.notice /\ noticesShown' = 1
                  /\ pc' = IF resp'.deployments[1].status \in TerminalSpellings
                             THEN "done" ELSE "loop"
                  /\ report' # "errorsDetected"
             ELSE /\ pc' = "done" /\ report' = "errorsDetected"
                  /\ ~emitted'.notice /\ noticesShown' = 0
       ]_vars

\* deployment:watch --continue-on-errors saw errors on an InProgress
\* deployment, gave the notice and goes on polling.
C4_Witness ==
  /\ cmd = "watch" /\ continueOnErrors /\ resp.kind = "ok"
  /\ Snapshot.status = "InProgress" /\ RenderedErrors
  /\ emitted.notice /\ noticesShown = 1 /\ pc = "loop"

\* ---------------------------------------------------------------------- C5
\* The four loops with a retry ceiling that counts failed fetches only.
PollingCommands == WatchCommands \cup { "list" }

\* C5: a polling loop ends on account of fetch failures exactly when 3
\* fetches in a row have failed; while the loop runs consecutiveErrors is the
\* number of fetches that failed in a row (0 after a successful poll that
\* does not end the loop); the counter stays within 0..3.
C5_RetryCeiling ==
  cmd \in PollingCommands =>
    /\ consecutiveErrors \in 0..3
    /\ (report = "tooManyErrors") <=> (failStreak = 3)
    /\ report = "tooManyErrors" => pc = "done"
    /\ failStreak <= 3
    /\ pc = "loop" => consecutiveErrors = failStreak

\* deployment:list --watch gave up after its third failed fetch in a row.
C5_Witness ==
  /\ cmd = "list" /\ pc = "done" /\ report = "tooManyErrors"
  /\ consecutiveErrors = 3 /\ failStreak = 3 /\ exitCode = <<1>>

\* ---------------------------------------------------------------------- C6
\* C6: a poll whose fetch throws leaves lastStatus, lastProgress,
\* lastErrorCount, lastWarningCount and errorsShown as they were, emits no
\* event and adds one to the failure counter.
C6_FailedPollFrame ==
  [][ (cmd \in WatchCommands /\ pc = "loop" /\ resp'.kind = "error") =>
        /\ UNCHANGED << lastStatus, lastProgress, lastErrorCount,
                        lastWarningCount, errorsShown >>
        /\ emitted' = NoEvents
        /\ consecutiveErrors' = consecutiveErrors + 1
    ]_vars

\* A fetch failed after the session had seen InProgress at 20%, an error and
\* a warning: all of it is still there.
C6_Witness ==
  /\ cmd = "watch" /\ resp.kind = "error" /\ pc = "loop"
  /\ consecutiveErrors = 1
  /\ lastStatus = "InProgress" /\ lastProgress = 20
  /\ lastErrorCount = 1 /\ lastWarningCount = 1 /\ errorsShown

\* ---------------------------------------------------------------------- C7
\* C7: a successful poll of a watch session that returns the very snapshot
\* the poll before it returned emits no status, progress, error or warning
\* event.
C7_IdenticalSnapshotSilent ==
  (cmd \in WatchCommands /\ repeated) => emitted = NoEvents

\* deployment:start --watch --continue-on-errors polled the same snapshot
\* (InProgress, 10%, one error, one warning) twice in a row.
C7_Witness ==
  /\ cmd = "start" /\ repeated /\ pc = "loop"
  /\ Snapshot.status = "InProgress" /\ Snapshot.percentComplete = <<10>>
  /\ Snapshot.deploymentErrors = <<1>> /\ Snapshot.deploymentWarnings = <<1>>

\* ---------------------------------------------------------------------- C8
\* C8: a poll of a watch session that does not find the deployment (the GET
\* of the deployment answers 404) ends the loop at that poll with the
\* not-found report, and is not counted as a failed poll.
C8_NotFoundEndsLoop ==
  (cmd \in WatchCommands /\ resp.kind = "error" /\ resp.httpStatus = 404) =>
    /\ pc = "done" /\ report = "notFound"
    /\ consecutiveErrors = 0

\* ---------------------------------------------------------------------- C9
\* C9: deployment:watch ends with exit code 1 when its loop ended on status
\* Failed, on detected errors, on not-found or on the exhausted retry budget,
\* and with exit code 0 only when the watch ended on Succeeded or on
\* AwaitingVerification (a deployment already final at the initial fetch is
\* not watched, and is left aside here).
C9_WatchExitCode ==
  (cmd = "watch" /\ pc = "done") =>
    /\ report \in FailureReports => exitCode = <<1>>
    /\ exitCode = <<0>> =>
         report \in { "succeeded", "awaitingverification", "alreadySucceeded",
                      "alreadyAwaitingVerification", "alreadyFailed" }

\* --------------------------------------------------------------------- C10
\* C10: in the ship workflow a poll that observes AwaitingVerification issues
\* the complete call and ends the loop; a poll that observes Succeeded ends
\* the workflow with exit code 0 and no complete call; a poll that observes
\* Failed ends the workflow with exit code 1 and no complete call.
C10_ShipTerminalStates ==
  (cmd = "deploy" /\ resp.kind = "ok") =>
    /\ Snapshot.status \in AwaitingSpellings => completeCalls >= 1 /\ pc = "done"
    /\ Snapshot.status \in SucceededSpellings =>
         pc = "done" /\ exitCode = <<0>> /\ completeCalls = 0
    /\ Snapshot.status \in FailedSpellings =>
         pc = "done" /\ exitCode = <<1>> /\ completeCalls = 0

\* --------------------------------------------------------------------- C11
\* The latest poll of the ship workflow returned a snapshot whose status is
\* Failed.
ShipObservedFailed ==
  cmd = "deploy" /\ resp.kind = "ok" /\ Snapshot.status \in FailedSpellings

\* C11: in the ship workflow the poll that observes status Failed ends the
\* polling loop: no iteration of the loop (no further fetch) follows it.
C11_ShipFailedEndsPolling ==
  [][ShipObservedFailed => ~DeployPoll]_vars

\* --------------------------------------------------------------------- C12
\* C12: in the ship workflow without --continue-on-errors, with or without
\* --json, a poll that returns a non-empty deploymentErrors list ends the
\* workflow at that poll with exit code 1, and complete has not been called.
C12_ShipErrorsEndWorkflow ==
  ( /\ cmd = "deploy" /\ ~continueOnErrors
    /\ resp.kind = "ok" /\ Snapshot.deploymentErrors # <<>> ) =>
    /\ pc = "done" /\ exitCode = <<1>>
    /\ completeCalls = 0

\* --------------------------------------------------------------------- C13
\* The ship process has ended: run returned through its finally block, or
\* the process was interrupted.
ShipEnded == cmd = "deploy" /\ pc \in { "exited", "killed" }

\* C13: when a ship run has ended, on whatever path, the API endpoint is,
\* in memory and in the persisted config file, what it was before the run,
\* and the API client holds the credentials it held before the run (none,
\* or the stored ones it loads on first use).
C13_ShipRestoresOverrides ==
  ShipEnded =>
    /\ apiEndpoint = before.apiEndpoint
    /\ configFile = before.configFile
    /\ credentials \in { before.credentials, before.keytar }

\* --------------------------------------------------------------------- C14
\* C14: at every point of a ship run, and after it, the credential store
\* holds what it held before the command ran.
C14_StoreUntouched ==
  cmd = "deploy" => keytar = before.keytar

\* A ship run given --client-key/--client-secret, with credentials in the
\* store, was interrupted in its polling loop while the override was in place.
C14_Witness ==
  /\ cmd = "deploy" /\ pc = "killed"
  /\ credentials = <<OverrideCredentials>>
  /\ keytar = <<StoredCredentials>>

\* --------------------------------------------------------------------- C15
\* C15: after a validateCredentials call, whatever its outcome, the API
\* client holds the credentials it held before the call (none included).
C15_ValidateRestoresCredentials ==
  (cmd = "validate" /\ pc = "done") => credentials = before.credentials

\* validateCredentials threw on a client that held the stored credentials
\* and was given other ones to validate.
C15_Witness ==
  /\ cmd = "validate" /\ pc = "done" /\ validation = "threw"
  /\ before.credentials = <<StoredCredentials>>
  /\ args[1].clientKey = "override-key"

\* --------------------------------------------------------------------- C16
\* C16: validateCredentials reports valid=false exactly when the read was
\* answered with HTTP status 401 or 403, valid=true exactly when the read
\* succeeded (2xx, success=true), and throws in every other case (another
\* status, success=false, no response, a secret nothing can be signed with).
C16_ValidationOutcome ==
  (cmd = "validate" /\ pc = "done") =>
    /\ validation \in { "valid", "invalid", "threw" }
    /\ validation = "invalid" <=>
         (apiResponse.received /\ apiResponse.status \in {401, 403})
    /\ validation = "valid" <=>
         (apiResponse.received /\ apiResponse.status = 200 /\ apiResponse.success)

\* The read of a validateCredentials call was answered 403 and the call
\* reported valid=false.
C16_Witness ==
  /\ cmd = "validate" /\ pc = "done"
  /\ apiResponse.received /\ apiResponse.status = 403
  /\ validation = "invalid"

\* --------------------------------------------------------------------- C17
\* C17: a request that was sent ends in one of three ways: it returns the
\* result when the response is 2xx with success=true; it fails with an
\* ApiError carrying the HTTP status and the errors of the response when the
\* response is non-2xx or has success=false; it fails with a NetworkError,
\* which is not an ApiError, when no response was received.
C17_RequestOutcomes ==
  (apiResult # NoResult /\ apiResponse # NoApiResponse) =>
    /\ (apiResponse.received /\ apiResponse.status = 200 /\ apiResponse.success) =>
         apiResult.kind = "result"
    /\ (apiResponse.received /\ ~(apiResponse.status = 200 /\ apiResponse.success)) =>
         /\ apiResult.kind = "ApiError"
         /\ apiResult.status = apiResponse.status
         /\ apiResponse.errors # <<>> => apiResult.errors = apiResponse.errors
    /\ ~apiResponse.received => apiResult.kind = "NetworkError"

C19_PayloadOmitsUnset ==
  (options # NoOptions /\ payload # NoPayload) =>
    LET o == options[1]
        sent == payload[1]
    IN
    /\ sent.targetEnvironment = <<o.targetEnvironment>>
    /\ sent.sourceEnvironment # <<>> <=> o.sourceEnvironment \notin { <<>>, <<"">> }
    /\ sent.sourceApp # <<>> <=> (o.sourceApp # <<>> /\ o.sourceApp # << <<>> >>)
    /\ sent.Packages # <<>> <=>
         (o.deploymentPackages # <<>> /\ o.deploymentPackages # << <<>> >>)
    /\ sent.useMaintenancePage # <<>> <=> o.useMaintenancePage # <<>>
    /\ sent.sourceEnvironment # <<>> => sent.sourceEnvironment[1] = o.sourceEnvironment
    /\ sent.sourceApp # <<>> => sent.sourceApp[1] = o.sourceApp
    /\ sent.Packages # <<>> => sent.Packages[1] = o.deploymentPackages
    /\ sent.useMaintenancePage # <<>> =>
         sent.useMaintenancePage[1] = o.useMaintenancePage

\* startDeployment was called with an empty source, an empty packages list,
\* no sourceApp and no useMaintenancePage: the payload holds the target only.
C19_Witness ==
  /\ cmd = "startDeployment" /\ pc = "done"
  /\ options[1].sourceEnvironment = <<"">>
  /\ options[1].deploymentPackages = << <<>> >>
  /\ options[1].sourceApp = <<>>
  /\ options[1].useMaintenancePage = <<>>
  /\ payload[1] = [ targetEnvironment |-> <<"integration">>, sourceEnvironment |-> <<>>,
                    sourceApp |-> <<>>, Packages |-> <<>>, useMaintenancePage |-> <<>> ]

\* --------------------------------------------------------------------- C20
\* C20: deployment:reset issues at most one reset call, and only with
\* --force or after the prompt was answered yes; a declined prompt ends the
\* command without a call; a malformed deployment or project id ends the
\* command before the prompt and before any call.
C20_ResetNeedsConfirmation ==
  (cmd = "reset" /\ args # NoArgs) =>
    LET a == args[1]
        malformed ==
          a.deploymentId = InvalidGuid \/ a.projectId = <<InvalidGuid>>
    IN
    /\ apiCalls \in { <<>>, <<"reset">> }
    /\ apiCalls # <<>> => (a.force \/ a.confirmed = <<TRUE>>)
    /\ a.confirmed = <<FALSE>> => (apiCalls = <<>> /\ pc = "done")
    /\ malformed =>
         apiCalls = <<>> /\ a.confirmed = <<>> /\ pc = "done" /\ exitCode = <<1>>
    /\ pc = "prompt" => apiCalls = <<>>

\* The prompt of deployment:reset was declined and the command ended.
C20_Witness ==
  /\ cmd = "reset" /\ pc = "done" /\ args # NoArgs
  /\ ~args[1].force /\ args[1].confirmed = <<FALSE>>
  /\ report = "cancelled" /\ apiCalls = <<>>

\* --------------------------------------------------------------------- C21
\* The secrets of the model that are syntactically valid base64: the length
\* is a multiple of 4, and every character is of the base64 alphabet (with
\* padding at the end only).
WellFormedBase64 == { "c3RvcmVk", "b3ZlcnJpZGU=" }

\* C21: a call made with a client secret that is not syntactically valid
\* base64 fails with the credential-format error and nothing is sent to the
\* remote; with a valid base64 secret the signature is computed and the
\* request is sent.
C21_RejectsMalformedSecret ==
  (cmd = "validate" /\ pc = "done") =>
    IF args[1].clientSecret \in WellFormedBase64
      THEN apiResult.kind # "Error" /\ apiResponse # NoApiResponse
      ELSE apiResult.kind = "Error" /\ apiResponse = NoApiResponse

\* --------------------------------------------------------------------- C22
\* The name the naming convention gives a package: the optional prefix,
\* the segments of the type, the version and the extension.
ConventionalName(type, version, prefix, dbType) ==
  LET lead == IF prefix = <<>> \/ prefix[1] = EmptyString THEN <<>> ELSE prefix[1]
      kind == IF type = "sqldb" THEN <<dbType, "sqldb">> ELSE <<type, "app">>
      ext == [ cms |-> "nupkg", commerce |-> "nupkg", head |-> "zip",
               sqldb |-> "bacpac" ][type]
  IN lead \o kind \o version \o <<ext>>

\* A package name was generated, by package:create or by the ship
\* workflow's generatePackageInfo, from an explicit version.
NamedWithVersion ==
  /\ cmd \in { "package:create", "generatePackageInfo" } /\ pc = "done"
  /\ args[1].packageInfo # <<>>
  /\ ~Falsy(args[1].version)

\* C22: for every type, optional prefix, explicit version and database type
\* the generated name is [prefix.]cms.app.<version>.nupkg,
\* [prefix.]commerce.app.<version>.nupkg, [prefix.]head.app.<version>.zip or
\* [prefix.]<dbType>.sqldb.<version>.bacpac, without the prefix segment when
\* the prefix is omitted or empty, and package:create and the ship workflow
\* generate the same name from the same inputs.
C22_PackageNames ==
  NamedWithVersion =>
    LET a == args[1]
    IN /\ a.packageInfo[1].name =
            ConventionalName(a.type, a.version[1], a.prefix, a.dbType)
       /\ generatePackageInfo(a.type, a.version, a.prefix, a.dbType, 0, 0).name =
            deployGeneratePackageInfo(a.type, a.version, a.prefix, a.dbType, 0).name

\* The ship workflow's generatePackageInfo named a database package of the
\* commerce database with a prefix.
C22_Witness ==
  /\ NamedWithVersion /\ cmd = "generatePackageInfo"
  /\ args[1].type = "sqldb" /\ args[1].dbType = "commerce"
  /\ args[1].packageInfo[1].name =
       <<"mysite", "commerce", "sqldb", "1", "0", "0", "bacpac">>

\* --------------------------------------------------------------------- C23
\* Lexicographic order of two digit strings.
RECURSIVE LexLeq(_, _)
LexLeq(x, y) ==
  IF x = <<>> THEN TRUE
  ELSE IF y = <<>> THEN FALSE
  ELSE IF Head(x) # Head(y) THEN Head(x) < Head(y)
  ELSE LexLeq(Tail(x), Tail(y))

\* package:create generated a name with the default version.
CreatedWithDefaultVersion ==
  /\ cmd = "package:create" /\ pc = "done"
  /\ args[1].packageInfo # <<>>
  /\ Falsy(args[1].version)

\* C23: the default version is monotonically sortable: in a fixed time zone,
\* the default version package:create generates at an instant is
\* lexicographically at most the one it generates at any later instant, and
\* so for the ship workflow.
C23_DefaultVersionSortable ==
  /\ CreatedWithDefaultVersion =>
       \A later \in Instants :
          args[1].now < later =>
            /\ args[1].packageInfo[1].name =
                 generatePackageInfo(args[1].type, args[1].version, args[1].prefix,
                                     args[1].dbType, args[1].now, args[1].zone).name
            /\ LexLeq(createDefaultVersion(args[1].now, args[1].zone),
                      createDefaultVersion(later, args[1].zone))
  /\ (cmd = "generatePackageInfo" /\ pc = "done" /\ Falsy(args[1].version)) =>
       \A later \in Instants :
          args[1].now < later =>
            LexLeq(shipDefaultVersion(args[1].now), shipDefaultVersion(later))

\* --------------------------------------------------------------------- C24
\* C24: at both call sites of the package builder, when the path of the
\* package to build is occupied the build fails (the command ends with exit
\* code 1 and nothing is uploaded) and the file at that path stays as it was.
C24_OccupiedPathRefused ==
  [][ /\ ( /\ cmd = "package:create" /\ pc = "run"
           /\ args'[1].packagePath # <<>>
           /\ existsSync(disk, args'[1].packagePath[1]) ) =>
         /\ disk' = disk
         /\ pc' = "done" /\ exitCode' = <<1>> /\ report' = "packageExists"
      /\ ( /\ cmd = "deploy" /\ pc = "prepare"
           /\ tempPackagePath' # <<>>
           /\ existsSync(disk, tempPackagePath'[1]) ) =>
         /\ disk' = disk
         /\ pc' = "done" /\ exitCode' = <<1>>
         /\ storage' = storage ]_vars

\* --------------------------------------------------------------------- C25
\* The accumulated ignore-pattern set of a source directory: the always-on
\* patterns, then the patterns of the project's ignore file.
AccumulatedPatterns(tree) ==
  AlwaysIgnored
    \o (IF tree.gitignore # <<>> THEN tree.gitignore[1] ELSE <<>>)
    \o (IF tree.zipignore # <<>> THEN tree.zipignore[1] ELSE <<>>)

\* The archive a build has to produce from a source directory.
HonouringArchive(tree) ==
  { f \in tree.files : ~ignores(AccumulatedPatterns(tree), f) }

\* C25: an archive the package builder produced, through package:create or
\* through the ship workflow, holds no entry the accumulated ignore patterns
\* match (.env, .git/, node_modules/, what the project's ignore file lists)
\* and holds every regular file they do not match.
C25_ArchiveHonoursIgnores ==
  /\ (cmd = "package:create" /\ pc = "done" /\ report = "created") =>
       disk[args[1].packagePath[1]].entries = HonouringArchive(args[1].tree)
  /\ (cmd = "deploy" /\ tempPackagePath # <<>> /\ existsSync(disk, tempPackagePath[1])) =>
       \E tree \in ShipTrees :
          disk[tempPackagePath[1]].entries = HonouringArchive(tree)

\* --------------------------------------------------------------------- C26
\* C26: the ship workflow deletes the package it created only when it was
\* written to the temporary directory for want of --output (every --output
\* of the model resolves to another directory) and only after the workflow
\* succeeded (exit code 0); a package written to an --output directory is
\* never deleted.
C26_PackageDeletedOnlyFromTemp ==
  [][ ( /\ cmd = "deploy" /\ tempPackagePath # <<>>
        /\ existsSync(disk, tempPackagePath[1])
        /\ ~existsSync(disk', tempPackagePath[1]) ) =>
      /\ tempPackagePath[1].dir = tmpdir
      /\ exitCode = <<0>> ]_vars

\* --------------------------------------------------------------------- C27
\* The names of the API calls issued so far.
Called == { apiCalls[i] : i \in 1..Len(apiCalls) }

\* What the ship workflow has done so far respects the order of its steps:
\* an upload (the location request, the PUT) only with a package created,
\* a start only after a PUT the storage accepted, polling only after start
\* returned a deployment.
ShipStepsOrdered ==
  /\ ("location" \in Called \/ storage # <<>>) => tempPackagePath # <<>>
  /\ "start" \in Called => (storage # <<>> /\ storage[Len(storage)].status = 201)
  /\ pc = "loop" =>
       /\ "start" \in Called
       /\ apiCalls[Len(apiCalls)] = "start" /\ apiResult.kind = "result"

\* A step of the ship workflow has failed: the run ended on an error, the
\* deployment it watches was seen to have failed, or a complete call was
\* rejected.  (A fetch that fails is retried by design and is no failure of
\* the watch step.)
ShipStepFailed ==
  \/ exitCode = <<1>>
  \/ ShipObservedFailed
  \/ completeFailures > 0

\* C27: the ship workflow creates the package, uploads it, starts the
\* deployment, watches it and completes it in this order; complete is
\* called only by a poll that observed AwaitingVerification; and once a
\* step has failed no later step is taken: no upload, no start, no poll and
\* no complete call follows.
C27_ShipStepsInOrder ==
  [][ cmd = "deploy" =>
      /\ ShipStepsOrdered'
      /\ completeCalls' # completeCalls =>
           /\ resp'.kind = "ok"
           /\ Snapshot'.status \in AwaitingSpellings
      /\ ShipStepFailed =>
           /\ apiCalls' = apiCalls /\ storage' = storage
           /\ completeCalls' = completeCalls
           /\ ~DeployPollOn(ShipFetches) ]_vars

\* --------------------------------------------------------------------- C28
\* A file name follows the package naming pattern
\* [prefix.]{cms|commerce|head}.app.<version>.{nupkg|zip} or
\* [prefix.]{cms|commerce}.sqldb.<version>.bacpac (letter case aside; prefix
\* and version are not empty).
FollowsNamingPattern(name) ==
  \E lead \in 0..Len(name), last \in 1..Len(name) :
     LET folded == [k \in 1..Len(name) |-> foldCase(name[k])]
         prefix == SubSeq(folded, 1, lead)
         version == SubSeq(folded, lead + 3, last - 1)
     IN /\ last = Len(name) /\ lead + 3 < last
        /\ prefix \notin { EmptyString } /\ version \notin { <<>>, EmptyString }
        /\ << folded[lead + 1], folded[lead + 2], folded[last] >> \in
             ({ "cms", "commerce", "head" } \X { "app" } \X { "nupkg", "zip" })
               \cup ({ "cms", "commerce" } \X { "sqldb" } \X { "bacpac" })

\* uploadPackage was called on a file that is missing, empty or misnamed.
UploadOfBadFile ==
  /\ cmd = "uploadPackage" /\ pc = "done"
  /\ \/ args[1].filePath \notin DOMAIN disk
     \/ disk[args[1].filePath].size = 0
     \/ ~FollowsNamingPattern(args[1].filePath.name)

\* C28: uploadPackage issues no request, neither for the SAS URL nor to the
\* storage service, when the package file does not exist, is empty or has a
\* name outside the naming pattern; and it attempts the storage upload only
\* after it obtained a SAS URL.
C28_UploadFailsFast ==
  /\ UploadOfBadFile =>
       /\ apiCalls = <<>> /\ apiResponse = NoApiResponse
       /\ storage = <<>>
  /\ (cmd = "uploadPackage" /\ storage # <<>>) =>
       /\ apiCalls = <<"location">>
       /\ apiResponse.received /\ apiResult.kind = "result"

\* uploadPackage was called on an empty file with a well-formed name, and a
\* project id.
C28_Witness ==
  /\ UploadOfBadFile
  /\ args[1].filePath \in DOMAIN disk
  /\ FollowsNamingPattern(args[1].filePath.name)
  /\ args[1].projectId # <<>>
  /\ apiCalls = <<>> /\ storage = <<>>

\* --------------------------------------------------------------------- C29
\* The prompts auth:login has shown so far, and whether it has saved
\* credentials.
LoginPrompts == { args[1].prompts[i] : i \in 1..Len(args[1].prompts) }
LoginSaved == report = "Authentication successful"

\* C29: auth:login without --skip-validation validates before it saves.
\* When validateCredentials returned valid=false the command ends with exit
\* code 1, has not asked whether to continue and has saved nothing; and
\* credentials are saved only when validation returned valid=true, or when
\* validation threw and the operator confirmed the prompt.
C29_LoginValidatesBeforeSaving ==
  (cmd = "login" /\ pc # "run" /\ ~args[1].skipValidation) =>
    /\ validation = "invalid" =>
         /\ pc = "done" /\ exitCode = <<1>>
         /\ "proceedAnyway" \notin LoginPrompts
         /\ keytar = before.keytar
    /\ LoginSaved =>
         \/ validation = "valid"
         \/ validation = "threw" /\ "proceedAnyway" \in LoginPrompts

\* --------------------------------------------------------------------- C30
\* auth:login was given --client-key, --client-secret (well-formed base64)
\* and --force, and no --project-id.
LoginByFlags ==
  /\ cmd = "login" /\ pc # "run"
  /\ "credentials" \notin LoginPrompts
  /\ args[1].clientKey # <<>> /\ args[1].clientSecret # <<>>
  /\ args[1].clientSecret[1] \in WellFormedBase64
  /\ args[1].force /\ args[1].projectId = <<>>

\* C30: auth:login given --client-key, --client-secret and --force completes
\* without asking anything, saves the credentials to the store and reports
\* "Authentication successful", whether or not credentials were stored
\* before.
C30_LoginByFlagsSucceeds ==
  LoginByFlags =>
    /\ pc = "done" /\ args[1].prompts = <<>>
    /\ LoginSaved /\ exitCode = <<0>>
    /\ keytar = << LoginCredentials(args[1]) >>

\* ---------------------------------------------------------------- C31
\* A poll of deployment:list --watch (not --json) whose fetch succeeded.
ListPolled == cmd = "list" /\ pc = "loop" /\ ~json /\ resp'.kind = "ok"

\* The ids a poll's fetch returned.
ListedIds(deployments) == { deployments[k].id : k \in 1..Len(deployments) }

\* C31 as stated: in deployment:list --watch (not --json) a poll produces
\* output for a deployment exactly when the deployment is not hidden as
\* completed and either it was never displayed or its tuple (status,
\* progress, error count, warning count) differs from the tuple last
\* displayed for its id; nothing else is displayed.
C31_ListOutputAsStated ==
  [][ ListPolled =>
        /\ displayed' \subseteq ListedIds(resp'.deployments)
        /\ \A k \in 1..Len(resp'.deployments) :
             LET d == resp'.deployments[k] IN
             d.id \in displayed' <=>
               /\ ~ListSkipsCompleted(d.snapshot)
               /\ \/ lastDisplayed[d.id] = <<>>
                  \/ lastDisplayed[d.id][1].state # ListCurrentState(d.snapshot) ]_vars

\* C31, amended: a poll produces output for a deployment exactly when the
\* deployment is not hidden as completed and either it was never displayed,
\* or it was hidden as completed since its latest output, or its tuple
\* differs from the tuple last displayed for its id; nothing else is
\* displayed.
C31_ListOutputOnChange ==
  [][ ListPolled =>
        /\ displayed' \subseteq ListedIds(resp'.deployments)
        /\ \A k \in 1..Len(resp'.deployments) :
             LET d == resp'.deployments[k] IN
             d.id \in displayed' <=>
               /\ ~ListSkipsCompleted(d.snapshot)
               /\ \/ lastDisplayed[d.id] = <<>>
                  \/ lastDisplayed[d.id][1].hidden
                  \/ lastDisplayed[d.id][1].state # ListCurrentState(d.snapshot) ]_vars

\* A poll returned a deployment that is not hidden and whose tuple is the
\* one last displayed, and produced no output.
C31_Witness ==
  /\ cmd = "list" /\ ~json /\ resp.kind = "ok" /\ Len(resp.deployments) = 1
  /\ ~ListSkipsCompleted(resp.deployments[1].snapshot)
  /\ lastDisplayed[resp.deployments[1].id] # <<>>
  /\ ~lastDisplayed[resp.deployments[1].id][1].hidden
  /\ lastDisplayed[resp.deployments[1].id][1].state =
       ListCurrentState(resp.deployments[1].snapshot)
  /\ displayed = {}

\* ---------------------------------------------------------------- C32
\* A poll of a watch loop whose fetch returned the deployment.
WatchPolledOk ==
  /\ cmd \in WatchCommands /\ pc = "loop"
  /\ resp'.kind = "ok" /\ Len(resp'.deployments) > 0

\* The fetched status differs from the status of the previous successful
\* poll of the session.
StatusDiffers ==
  polledStatus # <<>> /\ resp'.deployments[1].status # polledStatus[1]

WarningsReported(events) == IF events.warnings = <<>> THEN 0 ELSE events.warnings[1]

\* C33: in deployment:watch a warning event is emitted only when the
\* warning count rose above lastWarningCount and reports the rise; and the
\* counts reported in a session add up to the largest warning count
\* observed in it, that is, every successful poll reports exactly the
\* amount by which it raised the largest count observed so far.
C33_WarningsReportedOnce ==
  [][ WatchPolledOk /\ cmd = "watch" =>
        LET count == LengthOrZero(resp'.deployments[1].deploymentWarnings) IN
        /\ emitted'.warnings # <<>> =>
             /\ count > lastWarningCount
             /\ emitted'.warnings[1] = count - lastWarningCount
        /\ WarningsReported(emitted') = maxWarnings' - maxWarnings ]_vars

\* ---------------------------------------------------------------- C34
\* The upper-case spelling of an HTTP method.
UpperCase(method) ==
  IF method \in { "get", "GET", "Get" } THEN "GET" ELSE "POST"

\* A call of createSignature that returned.
Signed ==
  /\ cmd = "createSignature" /\ args # <<>>
  /\ args[1].entry = "createSignature" /\ ~args[1].signed.threw

\* A call of createAuthHeaders that returned.
HeadersBuilt ==
  /\ cmd = "createSignature" /\ args # <<>>
  /\ args[1].entry = "createAuthHeaders" /\ ~args[1].headers[1].threw

\* The signature of the message made of the parts given.
SignatureOver(secret, clientKey, method, path, timestamp, nonce, body) ==
  hmacSha256Base64(decodeBase64(secret),
    clientKey \o method \o path \o timestamp \o nonce \o md5Base64(body))

\* C34: the authorization value of createSignature is 'epi-hmac ' +
\* clientKey + ':' + timestamp + ':' + nonce + ':' + signature; the
\* signature is computed over clientKey + upper(method) + path + timestamp
\* + nonce + bodyHash with the timestamp and the nonce of the header; two
\* spellings of a method that differ in letter case only give the same
\* signature; an absent body is hashed as the empty string, also when the
\* call comes through createAuthHeaders.
C34_AuthorizationValue ==
  /\ Signed =>
       LET a == args[1]
           c == a.credentials[1]
           r == a.signed.value
       IN
       /\ r.timestamp = numberToString(a.now)
       /\ r.nonce = withoutDashes(a.uuid)
       /\ r.authorization =
            "epi-hmac " \o c.clientKey \o ":" \o r.timestamp \o ":" \o r.nonce
              \o ":" \o r.signature
       /\ r.signature =
            SignatureOver(c.clientSecret, c.clientKey, UpperCase(a.method), a.path,
                          r.timestamp, r.nonce,
                          IF a.body = <<>> THEN "" ELSE a.body[1])
       /\ \A m \in Methods :
            UpperCase(m) = UpperCase(a.method) =>
              createSignature(c.clientKey, c.clientSecret, m, a.path, a.body,
                              a.now, a.uuid).value.signature = r.signature
  /\ HeadersBuilt =>
       LET a == args[1]
           c == a.credentials[1]
           timestamp == numberToString(a.now)
           nonce == withoutDashes(a.uuid)
       IN
       a.body[1] = "undefined" =>
         a.headers[1].Authorization =
           "epi-hmac " \o c.clientKey \o ":" \o timestamp \o ":" \o nonce \o ":"
             \o SignatureOver(c.clientSecret, c.clientKey, UpperCase(a.method), a.path,
                              timestamp, nonce, "")

\* createSignature returned for a method spelled in lower case and without
\* a body.
C34_Witness ==
  /\ Signed
  /\ args[1].method = "get" /\ args[1].body = <<>>
  /\ args[1].signed.value.authorization # ""

\* ---------------------------------------------------------------- C35
\* auth:login was run without --force while the store held credentials
\* with a client key and a client secret.
LoginWhileAuthenticated ==
  /\ cmd = "login" /\ args # <<>>
  /\ ~args[1].force
  /\ before.keytar # <<>>
  /\ before.keytar[1].clientKey # "" /\ before.keytar[1].clientSecret # ""

\* C35: auth:login without --force, while credentials with a non-empty
\* client key and secret are stored, returns at once: it asks nothing,
\* issues no API call, and leaves the credential store and the
\* configuration (apiEndpoint, defaultProjectId) as they were.
C35_LoginKeepsStoredCredentials ==
  LoginWhileAuthenticated =>
    /\ pc = "done" /\ exitCode = <<0>> /\ report = "alreadyAuthenticated"
    /\ args[1].prompts = <<>>
    /\ apiCalls = <<>>
    /\ keytar = before.keytar
    /\ apiEndpoint = before.apiEndpoint /\ configFile = before.configFile
    /\ defaultProjectId = before.defaultProjectId

\* Such a run was given other credentials, another endpoint and a project
\* id, and a default project id was configured before.
C35_Witness ==
  /\ LoginWhileAuthenticated
  /\ args[1].clientKey # <<>> /\ args[1].clientSecret # <<>>
  /\ args[1].apiEndpoint = OverrideEndpoint
  /\ args[1].projectId = << ValidGuid >>
  /\ before.defaultProjectId # <<>>
  /\ report = "alreadyAuthenticated"

\* ---------------------------------------------------------------- C36
\* A package name was generated, by package:create or by the ship
\* workflow's generatePackageInfo.
PackageNamed ==
  /\ cmd \in { "package:create", "generatePackageInfo" } /\ pc = "done"
  /\ args[1].packageInfo # <<>>

\* C36: every package name the builder generates, for any type, optional
\* prefix, non-empty version and database type, is accepted by the name
\* pattern of the upload validator.
C36_GeneratedNamesAccepted ==
  PackageNamed => packagePatternTest(args[1].packageInfo[1].name)

\* ---------------------------------------------------------------- C37
\* C37: in one run of the ship workflow the complete call is issued at most
\* once, and only in an iteration whose fetch returned the status
\* AwaitingVerification (whatever its letter case); once a complete call
\* has been issued the loop polls no more.
C37_CompleteCalledOnce ==
  [][ cmd = "deploy" =>
        /\ completeCalls' <= 1
        /\ completeCalls' # completeCalls =>
             /\ pc = "loop" /\ completeCalls' = completeCalls + 1
             /\ resp'.kind = "ok" /\ Len(resp'.deployments) > 0
             /\ resp'.deployments[1].status \in AwaitingSpellings
        /\ completeCalls >= 1 => ~DeployPollOn(ShipFetches) ]_vars

\* ---------------------------------------------------------------- C38
\* The ship workflow printed its success result.
ShipReportedSuccess == cmd = "deploy" /\ report \in { "succeeded", "completed" }

\* C38: the ship workflow reports success and exits with code 0 only when
\* its loop ended on a poll that observed Succeeded, or on a poll that
\* observed AwaitingVerification followed by a complete call that returned;
\* every other run the workflow ends itself exits with code 1 and prints
\* no success result.
C38_ShipSuccessOnlyWhenDeployed ==
  cmd = "deploy" =>
    /\ exitCode = <<0>> => ShipReportedSuccess
    /\ (pc = "done" /\ ShipReportedSuccess) =>
         /\ exitCode = <<0>>
         /\ resp.kind = "ok" /\ Len(resp.deployments) > 0
         /\ \/ /\ report = "succeeded"
               /\ Snapshot.status \in SucceededSpellings
            \/ /\ report = "completed"
               /\ Snapshot.status \in AwaitingSpellings
               /\ completeCalls > completeFailures
    /\ (pc \in { "done", "exited" } /\ ~ShipReportedSuccess) => exitCode = <<1>>

\* The workflow reported success after a complete call that returned, in
\* --json mode.
C38_Witness ==
  /\ cmd = "deploy" /\ pc = "done" /\ json
  /\ report = "completed" /\ exitCode = <<0>>
  /\ Snapshot.status \in AwaitingSpellings
  /\ completeCalls = 1 /\ completeFailures = 0

\* ---------------------------------------------------------------- C39
\* deployment:watch on its own, with a loop that keeps polling: every
\* iteration the loop has begun is carried out.
\* The fetch results drawn here leave percentComplete out: the progress a
\* deployment reports has no part in how the loop ends.
WatchFetches ==
  { r \in ListDeploymentsById :
      r.kind = "ok" => r.deployments[1].percentComplete = <<>> }
WatchInit == InitOf({ "watch" }, { NoFiles })
WatchLoop == WatchPollOn(WatchFetches)
WatchNext == WatchRun \/ WatchLoop
WatchSpec ==
  WatchInit /\ [][WatchNext]_vars /\ WF_vars(WatchRun) /\ WF_vars(WatchLoop)

\* From now on every fetch of the loop that returns reports Succeeded,
\* Failed or AwaitingVerification.
RemoteSettled ==
  [][ (cmd = "watch" /\ pc = "loop" /\ resp'.kind = "ok") =>
        resp'.deployments[1].status \in TerminalSpellings ]_vars

\* C39: the watch loop, which has no iteration bound, ends in every run in
\* which the remote eventually and for good reports Succeeded, Failed or
\* AwaitingVerification, whichever fetches fail in between; and a loop all
\* of whose fetches failed has ended after exactly 3 fetches, without a
\* sleep after the last one.
C39_WatchTerminates ==
  /\ (<>RemoteSettled) => <>(pc = "done")
  /\ [](cmd = "watch" /\ pc \in { "loop", "done" } /\ polledStatus = <<>>
          /\ report \notin { "fetchFailed", "notFound", "alreadySucceeded",
                             "alreadyFailed", "alreadyAwaitingVerification" } =>
          /\ failStreak <= 3
          /\ pc = "done" <=> failStreak = 3
          /\ failStreak = 3 => report = "tooManyErrors" /\ ~slept
          /\ (failStreak \in 1..2) => slept)

\* The loop ended on a poll that observed a terminal status after two
\* fetches in a row had failed.
C39_Witness ==
  /\ cmd = "watch" /\ pc = "done" /\ report = "succeeded"
  /\ consecutiveErrors = 2 /\ failStreak = 0 /\ ~slept

\* ---------------------------------------------------------------- C40
\* auth:login has ended without saving credentials, after it got past the
\* check for stored credentials.
LoginEndedUnsaved ==
  /\ cmd = "login" /\ pc = "done"
  /\ report \in { "rejected", "Authentication cancelled", "saveFailed" }

\* C40: a run of auth:login that ends without saving credentials leaves
\* the persisted configuration as it was: apiEndpoint and defaultProjectId
\* keep their values.
C40_UnsavedLoginKeepsConfig ==
  LoginEndedUnsaved =>
    /\ keytar = before.keytar
    /\ configFile = before.configFile
    /\ defaultProjectId = before.defaultProjectId

====
